---- MODULE Spec2Model ----
(***************************************************************************)
(* A model of CentralizedLogger (src/performance_logger.py): the progress  *)
(* tracker that aggregates the batches reported by worker threads, and its *)
(* background logger thread that appends performance snapshots to a CSV    *)
(* log and saves a JSON checkpoint.                                        *)
(*                                                                         *)
(* Vocabulary of the specification versus the code:                        *)
(*   Tracker          CentralizedLogger                                    *)
(*   Reporter         the thread running _logging_loop                     *)
(*   updateProgress   update_progress                                      *)
(*   ProgressStore    _load_progress / _save_progress                      *)
(*   MetricsSink      _log_performance_metrics                             *)
(*                                                                         *)
(* Time is counted in whole seconds (one Tick of `clock`).                 *)
(***************************************************************************)
EXTENDS Integers, Sequences, FiniteSets, TLC

\* ------------------------------------------------------------------ bounds

\* How far the clock runs freely (seconds).
MaxTime == 1
\* How many update_progress calls the workers make in one behaviour.
MaxUpdates == 2
\* How many start()/stop() calls the controllers make in one behaviour.
MaxCalls == 2
\* How many logger threads start() may create in one behaviour.
MaxThreads == 2
\* The same, where one worker runs beside a longer series of start() and
\* stop() calls.
LifeUpdates == 1
LifeCalls == 3
\* The same, where start() and stop() calls of two tasks overlap.
RaceUpdates == 1
RaceCalls == 2
\* The same, where the file system may refuse an operation.
FaultUpdates == 1
FaultCalls == 2
\* How many writes of one logger thread the file system may refuse.
MaxFaults == 1
\* The same, where trackers are constructed on any checkpoint file.
StoreUpdates == 1
StoreCalls == 2
\* The same, where a second tracker follows the first on the same files.
TripUpdates == 2
TripCalls == 3
\* The same, where the clock runs further, so that a logger thread may go
\* round its loop more than once.
PaceUpdates == 1
PaceCalls == 2
PaceTime == 2
\* The same, where the counters are read while they are updated.
ReadUpdates == 2
ReadCalls == 2
\* The same, where the logger thread is left to meet the target.
TargetUpdates == 1
TargetCalls == 2
\* The producers: the largest total_trials, the largest batch_size (and
\* local_update_interval), and the largest num_workers.
ProdTrials == 3
ProdBatch == 2
ProdWorkers == 2
\* The largest trials_run and total_trials for which get_final_probability
\* is evaluated on its own.
MaxProb == 5
\* How many trials the worker threads of ComputeMultithread2 execute in one
\* behaviour.
SharedTrials == 3

\* --------------------------------------------------------- program constants

\* stop(): join(timeout = max(log_interval_sec, save_interval_sec) + 5)
JoinSlack == 5
\* _logging_loop: min(time_to_next_log, time_to_next_save, 1)
SleepCap == 1

\* ---------------------------------------------------------------- the tasks

Threads == 1..MaxThreads
NoThread == 0

\* The batches (batch_solutions, batch_trials) a worker may report.
Batches == {<<1, 1>>, <<1, 2>>, <<1, 0>>}

\* The keys of the JSON object that _save_progress writes (line 49).
SavedKeys == {"count_solutions", "count_run"}

\* What the progress file may hold: nothing ("absent"), no byte ("empty"),
\* text that is no JSON ("garbage"), or a JSON object ("json") with its keys
\* and the values of count_solutions and count_run.
\* (by and phase are history: which thread wrote the file, and from where).
FileOf(kind, s, t, by, phase) ==
    [kind |-> kind, keys |-> IF kind = "json" THEN SavedKeys ELSE {},
     count_solutions |-> s, count_run |-> t, by |-> by, phase |-> phase]
AbsentFile == FileOf("absent", 0, 0, 0, "old")
GarbageFile == FileOf("garbage", 0, 0, 0, "old")
JsonFile(s, t) == FileOf("json", s, t, 0, "old")
\* A JSON object that lacks some of the keys.
PartialFile(keys, s, t) == [JsonFile(s, t) EXCEPT !.keys = keys]

VARIABLES
    limits,          \* the bounds of the run that is modelled
    config,          \* total_trials, log_interval_sec, save_interval_sec
    progress_state,  \* self.progress_state: solutions, trials_run
    lock,            \* self._lock: "free" or the task that holds it
    stop_event,      \* self._stop_event
    logger_thread,   \* self.logger_thread: NoThread (None) or a thread
    thr,             \* per logger thread: its position and locals
    n_threads,       \* how many Thread objects have been created
    progress_file,   \* the checkpoint file progress-<type>.json
    perf_log,        \* the metrics file performance-<type>.csv
    clock,           \* wall-clock time, in seconds
    constructed,     \* whether __init__ has run
    wrk,             \* per worker: position in update_progress and locals
    ctl,             \* per controller: position in start()/stop() and locals
    n_updates,       \* update_progress calls begun
    n_calls,         \* start()/stop() calls begun
    loaded,          \* history: progress_state as __init__ left it
    applied,         \* history: sum of the batches of the returned updates
    result,          \* what the last get_final_probability call returned
    current_progress,\* what the last get_current_progress call returned
    prod             \* the producer that drives the tracker, and its locals

\* The tasks of the run: the threads that call update_progress, and those
\* that call start() and stop().
Workers == DOMAIN wrk
Controllers == DOMAIN ctl

vars == << limits, config, progress_state, lock, stop_event, logger_thread, thr,
           n_threads, progress_file, perf_log, clock, constructed, wrk, ctl,
           n_updates, n_calls, loaded, applied, result, current_progress,
           prod >>

\* ----------------------------------------------------------- pure helpers

Max(a, b) == IF a >= b THEN a ELSE b
Min(a, b) == IF a <= b THEN a ELSE b

\* f"{probability:.10f}" of probability = solutions / trials if trials > 0
\* else 0: the integer part and the ten decimals in two groups of five,
\* rounded half-to-even on the eleventh decimal.
Format10f(solutions, trials) ==
    IF trials > 0
    THEN LET q0 == solutions \div trials
             r0 == solutions % trials
             d1 == (r0 * 100000) \div trials
             r1 == (r0 * 100000) % trials
             d2 == (r1 * 100000) \div trials
             r2 == (r1 * 100000) % trials
             up == (2 * r2 > trials) \/ (2 * r2 = trials /\ d2 % 2 = 1)
             e2 == IF up THEN d2 + 1 ELSE d2
             e1 == IF e2 = 100000 THEN d1 + 1 ELSE d1
             e0 == IF e1 = 100000 THEN q0 + 1 ELSE q0
         IN  << e0, e1 % 100000, e2 % 100000 >>
    ELSE << 0, 0, 0 >>

HeaderLine ==
    [kind |-> "header", ts |-> 0, trials |-> 0, solutions |-> 0,
     prob |-> << 0, 0, 0 >>, by |-> NoThread, phase |-> "header"]

\* log_message_file = f"{timestamp}, {trials}, {solutions}, {probability:.10f}\n"
\* (by and phase are history: which thread wrote the line, and from where).
DataLine(ts, trials, solutions, by, phase) ==
    [kind |-> "data", ts |-> ts, trials |-> trials, solutions |-> solutions,
     prob |-> Format10f(solutions, trials), by |-> by, phase |-> phase]

\* What the metrics file may hold before the tracker is constructed.
AbsentLog == [exists |-> FALSE, lines |-> << >>]
EmptyLog == [exists |-> TRUE, lines |-> << >>]
OldLog ==
    [exists |-> TRUE,
     lines |-> << HeaderLine, DataLine(0, 1, 1, NoThread, "old") >>]

\* A file name that ignores the label.
ProgressFilenameShared(prefix, compute_type) == prefix \o ".json"

\* __init__, line 17: f"{progress_filename_prefix}-{self.compute_type}.json"
ProgressFilename(prefix, compute_type) ==
    prefix \o "-" \o compute_type \o ".json"

\* __init__, line 18:
\* f"{performance_log_filename_prefix}-{self.compute_type}.csv"
PerformanceLogFilename(prefix, compute_type) ==
    prefix \o "-" \o compute_type \o ".csv"

\* The arguments of __init__, with the defaults of the two prefixes; the
\* two file names are not made yet.
ConfigOf(total, log, save) ==
    [total_trials |-> total, log_interval_sec |-> log,
     save_interval_sec |-> save, compute_type |-> "SimpleCPU",
     progress_filename_prefix |-> "progress",
     performance_log_filename_prefix |-> "performance",
     progress_filename |-> "", performance_log_filename |-> ""]

\* __init__, lines 13-18: the attributes of the tracker, with the names of
\* its two files.
Attributes(cfg) ==
    [cfg EXCEPT
       !.progress_filename =
           ProgressFilename(cfg.progress_filename_prefix, cfg.compute_type),
       !.performance_log_filename =
           PerformanceLogFilename(cfg.performance_log_filename_prefix,
                                  cfg.compute_type)]

\* The labels and the prefixes with which trackers are constructed.
Labels == {"SimpleCPU", "Multithread2", "Multithread22Threads"}
ProgressPrefixes == {"progress", "test_progress"}
PerformancePrefixes == {"performance", "test_performance"}

\* The runs that are modelled: the configuration a tracker is constructed
\* with, and the two files as an earlier run left them.
Scenarios ==
    { << ConfigOf(3, 1, 1), AbsentFile, AbsentLog >>,
      << ConfigOf(3, 2, 1), GarbageFile, EmptyLog >>,
      << ConfigOf(3, 1, 2), JsonFile(1, 1), OldLog >>,
      << ConfigOf(3, 2, 1), JsonFile(2, 3), AbsentLog >>,
      << ConfigOf(3, 1, 2), JsonFile(2, 4), OldLog >>,
      << ConfigOf(0, 1, 1), AbsentFile, AbsentLog >> }

\* Checkpoint files that no run of the tracker leaves behind: records with
\* more solutions than trials, records that lack a key, a file of no byte.
StoreScenarios ==
    { << ConfigOf(3, 1, 1), AbsentFile, AbsentLog >>,
      << ConfigOf(3, 1, 1), JsonFile(1, 2), OldLog >>,
      << ConfigOf(3, 1, 1), JsonFile(2, 1), AbsentLog >>,
      << ConfigOf(3, 1, 1), PartialFile({"count_solutions"}, 2, 3), OldLog >>,
      << ConfigOf(3, 1, 1), PartialFile({"count_run"}, 2, 3), EmptyLog >>,
      << ConfigOf(3, 1, 1), GarbageFile, AbsentLog >>,
      << ConfigOf(3, 1, 1), FileOf("empty", 0, 0, 0, "old"), OldLog >> }

\* The runs that are modelled on a file system that may refuse.
FaultScenarios ==
    { << ConfigOf(3, 1, 1), AbsentFile, AbsentLog >>,
      << ConfigOf(3, 2, 1), GarbageFile, EmptyLog >>,
      << ConfigOf(3, 1, 2), JsonFile(1, 1), OldLog >> }

\* The runs that are modelled with two trackers in a row.
TripScenarios ==
    { << ConfigOf(3, 1, 1), AbsentFile, AbsentLog >>,
      << ConfigOf(3, 1, 1), JsonFile(1, 1), OldLog >> }

\* The runs that are modelled over a longer time.
PaceScenarios ==
    { << ConfigOf(3, 1, 1), AbsentFile, AbsentLog >>,
      << ConfigOf(3, 1, 2), JsonFile(1, 1), OldLog >>,
      << ConfigOf(3, 2, 1), JsonFile(1, 1), EmptyLog >> }

\* The runs that are modelled with calls that read the counters.
ReadScenarios ==
    { << ConfigOf(3, 1, 1), AbsentFile, AbsentLog >>,
      << ConfigOf(3, 1, 1), JsonFile(1, 2), OldLog >> }

\* Trackers with any label and any prefixes, on no files or on the files of
\* an earlier run.
PathScenarios ==
    { << [ConfigOf(3, 1, 1) EXCEPT
            !.compute_type = l, !.progress_filename_prefix = pp,
            !.performance_log_filename_prefix = lp], f[1], f[2] >> :
        l \in Labels, pp \in ProgressPrefixes, lp \in PerformancePrefixes,
        f \in { << AbsentFile, AbsentLog >>, << JsonFile(1, 1), OldLog >> } }

\* The runs in which one update meets the target, or none does.
TargetScenarios ==
    { << ConfigOf(3, 1, 1), JsonFile(1, 1), OldLog >>,
      << ConfigOf(3, 2, 1), JsonFile(1, 1), AbsentLog >>,
      << ConfigOf(3, 1, 2), AbsentFile, AbsentLog >> }

\* threading.Thread.is_alive()
IsAlive(t) == t # NoThread /\ thr[t].pc \notin {"unborn", "created", "dead"}


\* The position of a logger thread and its locals. (final_logs,
\* final_saves, failed, starter are history: the final actions that have
\* returned, the writes that raised, and the task that started the thread;
\* log_at, save_at are history: the reading of the clock at which the last
\* periodic log and the last periodic save were decided, or else at which
\* the thread began.)
IdleThread ==
    [pc |-> "unborn", cur |-> 0, now |-> 0, last_log |-> 0, last_save |-> 0,
     wake |-> 0, snap_s |-> 0, snap_t |-> 0, ts |-> 0, hdr |-> FALSE,
     phase |-> "periodic", final_logs |-> 0, final_saves |-> 0,
     failed |-> 0, starter |-> "none", log_at |-> 0, save_at |-> 0]

\* No get_final_probability call has returned yet. (of: history, the
\* progress_state the call read.)
NoResult ==
    [called |-> FALSE, value |-> << 0, 1 >>,
     of |-> [solutions |-> 0, trials_run |-> 0]]

\* No get_current_progress call has returned yet. (at: history, the number
\* of update_progress calls that had begun when the call returned.)
NoProgress == [called |-> FALSE, value |-> << 0, 0 >>, at |-> 0]

\* No producer drives the tracker: update_progress is called by workers
\* that report any batch.
NoProducer == [kind |-> "none"]

IdleWorker == [pc |-> "idle", bs |-> 0, bt |-> 0, tmp |-> 0]

\* The position of a controller in start() or stop(), and what its last
\* call returned (outcome). pre_*: history, the state in which the
\* controller's last call began.
IdleController ==
    [pc |-> "idle", op |-> "none", outcome |-> "none", prev_op |-> "none",
     prev_outcome |-> "none", joined |-> NoThread,
     deadline |-> 0, pre_alive |-> FALSE, pre_event |-> FALSE,
     pre_quiet |-> FALSE, pre_thread |-> NoThread, pre_n |-> 0,
     pre_state |-> [solutions |-> 0, trials_run |-> 0],
     pre_applied |-> [solutions |-> 0, trials_run |-> 0],
     pre_file |-> AbsentFile, pre_log |-> << >>]

\* ------------------------------------------------------------------- Init

\* The bounds of a run: how many calls are made, how far the clock runs,
\* and whether start()/stop() calls of different tasks may overlap; faults
\* tells whether the file system may refuse an operation.
LimitsOf(updates, calls, horizon, overlap) ==
    [updates |-> updates, calls |-> calls, horizon |-> horizon,
     overlap |-> overlap, faults |-> FALSE]

\* The state before __init__ runs: the files as an earlier run left them.
InitWith(scenarios, lim, workers, controllers) ==
    /\ limits = lim
    /\ \E sc \in scenarios :
         /\ config = sc[1]
         /\ progress_file = sc[2]
         /\ perf_log = sc[3]
    /\ progress_state = [solutions |-> 0, trials_run |-> 0]
    /\ lock = "free"
    /\ stop_event = FALSE
    /\ logger_thread = NoThread
    /\ thr = [t \in Threads |-> IdleThread]
    /\ n_threads = 0
    /\ clock = 0
    /\ constructed = FALSE
    /\ wrk = [w \in workers |-> IdleWorker]
    /\ ctl = [c \in controllers |-> IdleController]
    /\ n_updates = 0
    /\ n_calls = 0
    /\ loaded = [solutions |-> 0, trials_run |-> 0]
    /\ applied = [solutions |-> 0, trials_run |-> 0]
    /\ result = NoResult
    /\ current_progress = NoProgress
    /\ prod = NoProducer

InitOf(lim, workers, controllers) ==
    InitWith(Scenarios, lim, workers, controllers)

\* Two workers and one task that calls start() and stop().
Init ==
    InitOf(LimitsOf(MaxUpdates, MaxCalls, MaxTime, FALSE), {"w1", "w2"}, {"c1"})

\* One worker and one task that makes a longer series of calls.
InitLife ==
    InitOf(LimitsOf(LifeUpdates, LifeCalls, MaxTime, FALSE), {"w1"}, {"c1"})

\* One worker and two tasks whose start() and stop() calls may overlap.
InitRace ==
    InitOf(LimitsOf(RaceUpdates, RaceCalls, MaxTime, TRUE), {"w1"},
           {"c1", "c2"})

\* One worker and one task, on a file system that may refuse to open, to
\* read and to write.
InitFault ==
    InitWith(FaultScenarios,
             [LimitsOf(FaultUpdates, FaultCalls, MaxTime, FALSE)
                EXCEPT !.faults = TRUE],
             {"w1"}, {"c1"})

\* One worker and one task, on any checkpoint file.
InitStore ==
    InitWith(StoreScenarios, LimitsOf(StoreUpdates, StoreCalls, MaxTime, FALSE),
             {"w1"}, {"c1"})

\* One worker and one task; the tracker may be dropped and a new one
\* constructed on the files it left. The clock stands still but for the
\* timeout of a join.
InitTrip ==
    InitWith(TripScenarios, LimitsOf(TripUpdates, TripCalls, 0, FALSE),
             {"w1"}, {"c1"})

\* One worker and one task, beside calls that read the counters. The clock
\* stands still but for the timeout of a join.
InitRead ==
    InitWith(ReadScenarios, LimitsOf(ReadUpdates, ReadCalls, 0, FALSE),
             {"w1"}, {"c1"})

\* One worker on a tracker with any label and any prefixes.
InitPath ==
    InitWith(PathScenarios, LimitsOf(2, 0, 0, FALSE), {"w1"}, {"c1"})

\* One worker and one task, with a logger thread that runs on.
InitTarget ==
    InitWith(TargetScenarios,
             LimitsOf(TargetUpdates, TargetCalls, MaxTime, FALSE),
             {"w1"}, {"c1"})

\* One worker and one task, over a longer time.
InitPace ==
    InitWith(PaceScenarios, LimitsOf(PaceUpdates, PaceCalls, PaceTime, FALSE),
             {"w1"}, {"c1"})

\* ------------------------------------------------- ProgressStore, MetricsSink

\* _load_progress, lines 28-41: what progress_state becomes for a file.
\* json.load raises for a file that holds no JSON, and progress_state
\* stays as line 20 made it; data.get(key, 0) reads a key that is missing
\* as 0.
LoadProgress(file) ==
    IF file.kind = "json"
    THEN [solutions |-> IF "count_solutions" \in file.keys
                        THEN file.count_solutions ELSE 0,
          trials_run |-> IF "count_run" \in file.keys
                         THEN file.count_run ELSE 0]
    ELSE [solutions |-> 0, trials_run |-> 0]

\* A header before every line.
HeaderDueAlways(log) == TRUE

\* _log_performance_metrics, lines 82-83: whether the header is due.
HeaderDue(log) == ~log.exists \/ Len(log.lines) = 0

\* A log that takes a new line at its head.
PrependLine(log, hdr, line) ==
    [exists |-> TRUE,
     lines |-> IF hdr THEN << HeaderLine, line >> \o log.lines
                      ELSE << line >> \o log.lines]

\* _log_performance_metrics, lines 85-88: open(..., 'a'), header, line.
AppendLine(log, hdr, line) ==
    [exists |-> TRUE,
     lines |-> IF hdr THEN log.lines \o << HeaderLine, line >>
                      ELSE Append(log.lines, line)]

\* _save_progress, line 51: open(..., 'w') leaves a file of no byte.
TruncatedFile(by, phase) == FileOf("empty", 0, 0, by, phase)

\* A save under the keys of progress_state.
WriteFileStateKeys(s, t, by, phase) ==
    [FileOf("json", s, t, by, phase) EXCEPT !.keys = {"solutions", "trials_run"}]

\* _save_progress, lines 49-52: json.dump of the object of line 49.
WriteFile(s, t, by, phase) == FileOf("json", s, t, by, phase)

\* A lock that excludes nobody.
CanAcquireUnlocked == TRUE

\* with self._lock: whether the lock can be taken.
CanAcquire == lock = "free"

\* The other policy: always divide by the trials that were run.
FinalProbabilityByRun(state, total) ==
    IF state.trials_run > 0
    THEN << state.solutions, state.trials_run >>
    ELSE << 0, 1 >>

\* get_final_probability, lines 192-199, for the counters read under the
\* lock: the quotient solutions / trials_for_calc as the pair of its
\* numerator and denominator, and 0 as << 0, 1 >>.
FinalProbability(state, total) ==
    LET trials_for_calc ==
          IF state.trials_run >= total /\ total > 0
          THEN total ELSE state.trials_run
    IN  IF trials_for_calc > 0
        THEN << state.solutions, trials_for_calc >>
        ELSE << 0, 1 >>

\* ----------------------------------------------------------- construction

\* _log_performance_metrics, lines 85-90, when the file system refuses:
\* open(..., 'a') raises and the file is as it was, or a write raises and
\* the file exists without the new lines; the exception is logged.
AppendRefused(log) == { log, [log EXCEPT !.exists = TRUE] }

\* A construction without the initial entry of the log.
ConstructSilent ==
    /\ ~constructed
    /\ constructed' = TRUE
    /\ progress_state' = LoadProgress(progress_file)
    /\ loaded' = LoadProgress(progress_file)
    /\ config' = Attributes(config)
    /\ UNCHANGED << limits, lock, stop_event, logger_thread, thr,
                    n_threads, progress_file, perf_log, clock, wrk, ctl,
                    n_updates, n_calls, applied, result,
                    current_progress, prod >>

\* __init__: _load_progress, then the initial "Loaded" entry of the log.
\* When the file system refuses, the open of line 30 raises, which leaves
\* progress_state as line 20 made it, or the append of the entry fails.
Construct ==
    /\ ~constructed
    /\ constructed' = TRUE
    /\ \E st \in { LoadProgress(progress_file) } \cup
                  IF limits.faults /\ progress_file.kind # "absent"
                  THEN { LoadProgress(AbsentFile) } ELSE {} :
         /\ progress_state' = st
         /\ loaded' = st
         /\ \/ perf_log' = AppendLine(perf_log, HeaderDue(perf_log),
                              DataLine(clock, st.trials_run, st.solutions,
                                       NoThread, "loaded"))
            \/ limits.faults /\ perf_log' \in AppendRefused(perf_log)
    /\ config' = Attributes(config)
    /\ UNCHANGED << limits, lock, stop_event, logger_thread, thr, n_threads,
                    progress_file, clock, wrk, ctl, n_updates, n_calls,
                    applied, result,
                    current_progress, prod >>

\* The lines of the metrics log that a construction appended.
LoadedLines ==
    { i \in 1..Len(perf_log.lines) : perf_log.lines[i].phase = "loaded" }

\* The tracker is dropped once its threads have ended and no call is in
\* progress; the files stay. __init__ of the next tracker (lines 20-23)
\* begins from fresh counters, a fresh lock and event, and no thread.
Discard ==
    /\ constructed
    /\ Cardinality(LoadedLines) < 2
    /\ \A w \in Workers : wrk[w].pc = "idle"
    /\ \A c \in Controllers : ctl[c].pc = "idle"
    /\ \A t \in Threads : thr[t].pc \in {"unborn", "dead"}
    /\ constructed' = FALSE
    /\ progress_state' = [solutions |-> 0, trials_run |-> 0]
    /\ lock' = "free"
    /\ stop_event' = FALSE
    /\ logger_thread' = NoThread
    /\ ctl' = [c \in Controllers |-> IdleController]
    /\ loaded' = [solutions |-> 0, trials_run |-> 0]
    /\ applied' = [solutions |-> 0, trials_run |-> 0]
    /\ result' = NoResult
    /\ UNCHANGED << limits, config, thr, n_threads, progress_file, perf_log,
                    clock, wrk, n_updates, n_calls,
                    current_progress, prod >>

\* -------------------------------------------------------- update_progress

\* An update_progress without the test of lines 93-94.
UpdateCallNoGuard(w, bs, bt) ==
    /\ constructed
    /\ wrk[w].pc = "idle"
    /\ n_updates < limits.updates
    /\ n_updates' = n_updates + 1
    /\ CanAcquire
    /\ lock' = w
    /\ wrk' = [wrk EXCEPT ![w] =
                 [pc |-> "add_s", bs |-> bs, bt |-> bt,
                  tmp |-> progress_state.solutions]]
    /\ UNCHANGED << limits, config, progress_state, stop_event,
                    logger_thread, thr, n_threads, progress_file, perf_log,
                    clock, constructed, ctl, n_calls, loaded, applied,
                    result,
                    current_progress, prod >>

\* update_progress(bs, bt), lines 93-96: the call, which returns at once
\* when bt = 0; otherwise the lock is taken and progress_state['solutions']
\* is read.
UpdateCall(w, bs, bt) ==
    /\ constructed
    /\ wrk[w].pc = "idle"
    /\ n_updates < limits.updates
    /\ n_updates' = n_updates + 1
    /\ IF bt = 0
       THEN UNCHANGED << lock, wrk >>
       ELSE /\ CanAcquire
            /\ lock' = w
            /\ wrk' = [wrk EXCEPT ![w] =
                         [pc |-> "add_s", bs |-> bs, bt |-> bt,
                          tmp |-> progress_state.solutions]]
    /\ UNCHANGED << limits, config, progress_state, stop_event, logger_thread,
                    thr, n_threads, progress_file, perf_log, clock,
                    constructed, ctl, n_calls, loaded, applied, result,
                    current_progress, prod >>

\* progress_state['solutions'] += bs is stored; trials_run is read.
UpdateSolutions(w) ==
    /\ wrk[w].pc = "add_s"
    /\ progress_state' =
         [progress_state EXCEPT !.solutions = wrk[w].tmp + wrk[w].bs]
    /\ wrk' = [wrk EXCEPT ![w].pc = "add_t",
                          ![w].tmp = progress_state.trials_run]
    /\ UNCHANGED << limits, config, lock, stop_event, logger_thread, thr, n_threads,
                    progress_file, perf_log, clock, constructed, ctl,
                    n_updates, n_calls, loaded, applied, result,
                    current_progress, prod >>

\* An update_progress that logs the counters before it returns.
UpdateTrialsLogging(w) ==
    /\ wrk[w].pc = "add_t"
    /\ progress_state' =
         [progress_state EXCEPT !.trials_run = wrk[w].tmp + wrk[w].bt]
    /\ lock' = "free"
    /\ applied' = [solutions |-> applied.solutions + wrk[w].bs,
                   trials_run |-> applied.trials_run + wrk[w].bt]
    /\ wrk' = [wrk EXCEPT ![w] = IdleWorker]
    /\ perf_log' = AppendLine(perf_log, HeaderDue(perf_log),
                      DataLine(clock, wrk[w].tmp + wrk[w].bt,
                               progress_state.solutions, NoThread, "update"))
    /\ UNCHANGED << limits, config, stop_event, logger_thread, thr,
                    n_threads, progress_file, clock, constructed, ctl,
                    n_updates, n_calls, loaded, result,
                    current_progress, prod >>

\* An update_progress that saves the counters before it returns.
UpdateTrialsSaving(w) ==
    /\ wrk[w].pc = "add_t"
    /\ progress_state' =
         [progress_state EXCEPT !.trials_run = wrk[w].tmp + wrk[w].bt]
    /\ lock' = "free"
    /\ applied' = [solutions |-> applied.solutions + wrk[w].bs,
                   trials_run |-> applied.trials_run + wrk[w].bt]
    /\ wrk' = [wrk EXCEPT ![w] = IdleWorker]
    /\ progress_file' = WriteFile(progress_state.solutions,
                                  wrk[w].tmp + wrk[w].bt, NoThread, "update")
    /\ UNCHANGED << limits, config, stop_event, logger_thread, thr,
                    n_threads, perf_log, clock, constructed, ctl, n_updates,
                    n_calls, loaded, result,
                    current_progress, prod >>

\* progress_state['trials_run'] += bt is stored; the lock is released and
\* the call returns.
UpdateTrials(w) ==
    /\ wrk[w].pc = "add_t"
    /\ progress_state' =
         [progress_state EXCEPT !.trials_run = wrk[w].tmp + wrk[w].bt]
    /\ lock' = "free"
    /\ applied' = [solutions |-> applied.solutions + wrk[w].bs,
                   trials_run |-> applied.trials_run + wrk[w].bt]
    /\ wrk' = [wrk EXCEPT ![w] = IdleWorker]
    /\ UNCHANGED << limits, config, stop_event, logger_thread, thr, n_threads,
                    progress_file, perf_log, clock, constructed, ctl,
                    n_updates, n_calls, loaded, result,
                    current_progress, prod >>

\* ----------------------------------------------------------- _logging_loop

\* Lines 138-142 of one loop iteration, for a thread record r whose log
\* step is over: the save is due, or the loop goes round.
SaveDecision(r) ==
    IF r.now - r.last_save >= config.save_interval_sec
    THEN IF r.cur < config.total_trials
         THEN [r EXCEPT !.pc = "save_snap", !.phase = "periodic",
                        !.save_at = r.now]
         ELSE [r EXCEPT !.pc = "loop", !.last_save = r.now]
    ELSE [r EXCEPT !.pc = "loop"]

\* A loop that logs in every iteration, whether or not the log is due.
LogDecisionEarly(r) ==
    IF r.cur < config.total_trials
    THEN [r EXCEPT !.pc = "log_snap", !.phase = "periodic", !.log_at = r.now]
    ELSE SaveDecision([r EXCEPT !.last_log = r.now])

\* Lines 131-135: the log is due, or lines 138-142 follow.
LogDecision(r) ==
    IF r.now - r.last_log >= config.log_interval_sec
    THEN IF r.cur < config.total_trials
         THEN [r EXCEPT !.pc = "log_snap", !.phase = "periodic",
                        !.log_at = r.now]
         ELSE SaveDecision([r EXCEPT !.last_log = r.now])
    ELSE SaveDecision(r)

\* A loop that ends without its final actions.
FinalizeNoFlush(r) == [r EXCEPT !.pc = "dead"]

\* Lines 144-147: the final actions begin.
Finalize(r) == [r EXCEPT !.pc = "log_snap", !.phase = "final"]

\* Lines 118-122: sleep_duration.
SleepDuration(now, last_log, last_save) ==
    Max(0, Min(Min(config.log_interval_sec - (now - last_log),
                   config.save_interval_sec - (now - last_save)), SleepCap))

\* Lines 102-104: the thread begins to run.
ThreadBegin(t) ==
    /\ thr[t].pc = "begin"
    /\ thr' = [thr EXCEPT ![t].pc = "loop", ![t].last_log = clock,
                          ![t].last_save = clock, ![t].log_at = clock,
                          ![t].save_at = clock]
    /\ UNCHANGED << limits, config, progress_state, lock, stop_event, logger_thread,
                    n_threads, progress_file, perf_log, clock, constructed,
                    wrk, ctl, n_updates, n_calls, loaded, applied, result,
                    current_progress, prod >>

\* A loop without the target check of lines 112-114.
LoopHeadNoTarget(t) ==
    /\ thr[t].pc = "loop"
    /\ IF stop_event
       THEN thr' = [thr EXCEPT ![t] = Finalize(thr[t])]
       ELSE /\ CanAcquire
            /\ thr' = [thr EXCEPT
                       ![t].cur = progress_state.trials_run,
                       ![t].now = clock,
                       ![t].wake = clock + SleepDuration(clock,
                                       thr[t].last_log, thr[t].last_save),
                       ![t].pc = "wait"]
    /\ UNCHANGED << limits, config, progress_state, lock, stop_event,
                    logger_thread, n_threads, progress_file, perf_log, clock,
                    constructed, wrk, ctl, n_updates, n_calls, loaded,
                    applied, result, current_progress, prod >>

\* Lines 106-122: the loop test, the locked read of trials_run, the target
\* check and the computation of the sleep.
LoopHead(t) ==
    /\ thr[t].pc = "loop"
    /\ IF stop_event
       THEN thr' = [thr EXCEPT ![t] = Finalize(thr[t])]
       ELSE /\ CanAcquire
            /\ IF progress_state.trials_run >= config.total_trials
               THEN thr' = [thr EXCEPT ![t] =
                       Finalize([thr[t] EXCEPT
                                   !.cur = progress_state.trials_run])]
               ELSE thr' = [thr EXCEPT
                       ![t].cur = progress_state.trials_run,
                       ![t].now = clock,
                       ![t].wake = clock + SleepDuration(clock,
                                       thr[t].last_log, thr[t].last_save),
                       ![t].pc = "wait"]
    /\ UNCHANGED << limits, config, progress_state, lock, stop_event, logger_thread,
                    n_threads, progress_file, perf_log, clock, constructed,
                    wrk, ctl, n_updates, n_calls, loaded, applied, result,
                    current_progress, prod >>

\* A wait that the stop signal does not cut short (a plain sleep).
WaitFull(t) ==
    /\ thr[t].pc = "wait"
    /\ clock >= thr[t].wake
    /\ thr' = [thr EXCEPT ![t].pc = "after_wait"]
    /\ UNCHANGED << limits, config, progress_state, lock, stop_event, logger_thread,
                    n_threads, progress_file, perf_log, clock, constructed,
                    wrk, ctl, n_updates, n_calls, loaded, applied, result,
                    current_progress, prod >>

\* Line 124: self._stop_event.wait(sleep_duration) returns.
Wait(t) ==
    /\ thr[t].pc = "wait"
    /\ stop_event \/ clock >= thr[t].wake
    /\ thr' = [thr EXCEPT ![t].pc = "after_wait"]
    /\ UNCHANGED << limits, config, progress_state, lock, stop_event, logger_thread,
                    n_threads, progress_file, perf_log, clock, constructed,
                    wrk, ctl, n_updates, n_calls, loaded, applied, result,
                    current_progress, prod >>

\* A stop check that returns from the thread instead of leaving the loop.
AfterWaitReturn(t) ==
    /\ thr[t].pc = "after_wait"
    /\ thr' = [thr EXCEPT ![t] =
                 IF stop_event THEN [thr[t] EXCEPT !.pc = "dead"]
                 ELSE LogDecision([thr[t] EXCEPT !.now = clock])]
    /\ UNCHANGED << limits, config, progress_state, lock, stop_event,
                    logger_thread, n_threads, progress_file, perf_log, clock,
                    constructed, wrk, ctl, n_updates, n_calls, loaded,
                    applied, result,
                    current_progress, prod >>

\* Lines 125-142: the stop check after the sleep, the new reading of the
\* time, and the decisions which of the log and the save are due.
AfterWait(t) ==
    /\ thr[t].pc = "after_wait"
    /\ thr' = [thr EXCEPT ![t] =
                 IF stop_event THEN Finalize(thr[t])
                 ELSE LogDecision([thr[t] EXCEPT !.now = clock])]
    /\ UNCHANGED << limits, config, progress_state, lock, stop_event, logger_thread,
                    n_threads, progress_file, perf_log, clock, constructed,
                    wrk, ctl, n_updates, n_calls, loaded, applied, result,
                    current_progress, prod >>

\* _log_performance_metrics, lines 58-83: the locked copy of the counters,
\* the timestamp, the console line, and the test whether the file is
\* absent or empty.
LogSnap(t) ==
    /\ thr[t].pc = "log_snap"
    /\ CanAcquire
    /\ thr' = [thr EXCEPT ![t].pc = "log_append",
                          ![t].snap_s = progress_state.solutions,
                          ![t].snap_t = progress_state.trials_run,
                          ![t].ts = clock,
                          ![t].hdr = HeaderDue(perf_log)]
    /\ UNCHANGED << limits, config, progress_state, lock, stop_event, logger_thread,
                    n_threads, progress_file, perf_log, clock, constructed,
                    wrk, ctl, n_updates, n_calls, loaded, applied, result,
                    current_progress, prod >>

\* A loop that does not reset the time of its last log (no line 135).
AfterLogNoReset(r) ==
    IF r.phase = "final"
    THEN [r EXCEPT !.pc = "save_snap", !.final_logs = @ + 1]
    ELSE SaveDecision(r)

\* What follows _log_performance_metrics in the loop: after a periodic
\* log, line 135 and the save decision; after the final log, the final
\* save.
AfterLog(r) ==
    IF r.phase = "final"
    THEN [r EXCEPT !.pc = "save_snap", !.final_logs = @ + 1]
    ELSE SaveDecision([r EXCEPT !.last_log = r.now])

\* What follows _save_progress in the loop: after a periodic save, line
\* 142 and the next iteration; after the final save the thread ends.
AfterSave(r) ==
    IF r.phase = "final"
    THEN [r EXCEPT !.pc = "dead", !.final_saves = @ + 1]
    ELSE [r EXCEPT !.pc = "loop", !.last_save = r.now]

\* _log_performance_metrics, lines 85-90: the line is appended, after the
\* header when it is due; or the file system refuses, and the exception
\* is logged.
LogAppend(t) ==
    /\ thr[t].pc = "log_append"
    /\ \/ /\ perf_log' = AppendLine(perf_log, thr[t].hdr,
                             DataLine(thr[t].ts, thr[t].snap_t,
                                      thr[t].snap_s, t, thr[t].phase))
          /\ thr' = [thr EXCEPT ![t] = AfterLog(thr[t])]
       \/ /\ limits.faults /\ thr[t].failed < MaxFaults
          /\ perf_log' \in AppendRefused(perf_log)
          /\ thr' = [thr EXCEPT ![t] =
                       AfterLog([thr[t] EXCEPT !.failed = @ + 1])]
    /\ UNCHANGED << limits, config, progress_state, lock, stop_event, logger_thread,
                    n_threads, progress_file, clock, constructed, wrk, ctl,
                    n_updates, n_calls, loaded, applied, result,
                    current_progress, prod >>

\* A save that keeps the lock while it writes.
SaveSnapLocked(t) ==
    /\ thr[t].pc = "save_snap"
    /\ CanAcquire
    /\ lock' = "logger"
    /\ thr' = [thr EXCEPT ![t].pc = "save_open",
                          ![t].snap_s = progress_state.solutions,
                          ![t].snap_t = progress_state.trials_run]
    /\ UNCHANGED << limits, config, progress_state, stop_event,
                    logger_thread, n_threads, progress_file, perf_log, clock,
                    constructed, wrk, ctl, n_updates, n_calls, loaded,
                    applied, result,
                    current_progress, prod >>

\* _save_progress, lines 48-49: the locked copy of the counters.
SaveSnap(t) ==
    /\ thr[t].pc = "save_snap"
    /\ CanAcquire
    /\ thr' = [thr EXCEPT ![t].pc = "save_open",
                          ![t].snap_s = progress_state.solutions,
                          ![t].snap_t = progress_state.trials_run]
    /\ UNCHANGED << limits, config, progress_state, lock, stop_event, logger_thread,
                    n_threads, progress_file, perf_log, clock, constructed,
                    wrk, ctl, n_updates, n_calls, loaded, applied, result,
                    current_progress, prod >>

\* A save whose exception is not caught: the thread ends there.
SaveOpenRaises(t) ==
    /\ thr[t].pc = "save_open"
    /\ \/ /\ progress_file' = TruncatedFile(t, thr[t].phase)
          /\ thr' = [thr EXCEPT ![t].pc = "save_write"]
       \/ /\ limits.faults /\ thr[t].failed < MaxFaults
          /\ progress_file' = progress_file
          /\ thr' = [thr EXCEPT ![t].pc = "dead", ![t].failed = @ + 1]
    /\ UNCHANGED << limits, config, progress_state, lock, stop_event,
                    logger_thread, n_threads, perf_log, clock, constructed,
                    wrk, ctl, n_updates, n_calls, loaded, applied, result,
                    current_progress, prod >>

\* _save_progress, line 51: open(..., 'w') truncates the file; or the file
\* system refuses, the file is as it was and the exception is logged
\* (lines 54-55).
SaveOpen(t) ==
    /\ thr[t].pc = "save_open"
    /\ \/ /\ progress_file' = TruncatedFile(t, thr[t].phase)
          /\ thr' = [thr EXCEPT ![t].pc = "save_write"]
       \/ /\ limits.faults /\ thr[t].failed < MaxFaults
          /\ progress_file' = progress_file
          /\ thr' = [thr EXCEPT ![t] =
                       AfterSave([thr[t] EXCEPT !.failed = @ + 1])]
    /\ UNCHANGED << limits, config, progress_state, lock, stop_event,
                    logger_thread, n_threads, perf_log, clock, constructed,
                    wrk, ctl, n_updates, n_calls, loaded, applied, result,
                    current_progress, prod >>

\* _save_progress, lines 52-55: json.dump writes the object and the file is
\* closed; or the file system refuses part-way, the file keeps what had
\* reached it, which is no JSON, and the exception is logged.
SaveWrite(t) ==
    /\ thr[t].pc = "save_write"
    /\ \/ /\ progress_file' = WriteFile(thr[t].snap_s, thr[t].snap_t, t,
                                        thr[t].phase)
          /\ thr' = [thr EXCEPT ![t] = AfterSave(thr[t])]
       \/ /\ limits.faults /\ thr[t].failed < MaxFaults
          /\ \E kind \in {"empty", "garbage"} :
               progress_file' = FileOf(kind, 0, 0, t, thr[t].phase)
          /\ thr' = [thr EXCEPT ![t] =
                       AfterSave([thr[t] EXCEPT !.failed = @ + 1])]
    /\ UNCHANGED << limits, config, progress_state, lock, stop_event, logger_thread,
                    n_threads, perf_log, clock, constructed, wrk, ctl,
                    n_updates, n_calls, loaded, applied, result,
                    current_progress, prod >>

\* ------------------------------------------------------- start() and stop()

OthersIdle(c) == \A d \in Controllers \ {c} : ctl[d].pc = "idle"

\* The controllers that are in start() past its two early returns.
Starting == { d \in Controllers :
                ctl[d].pc \in {"start_check", "start_clear", "start_create"} }

\* The record of a controller whose call op begins in the current state.
Calling(c, op) ==
    [IdleController EXCEPT
       !.op = op,
       !.prev_op = ctl[c].op,
       !.prev_outcome = ctl[c].outcome,
       !.pre_alive = IsAlive(logger_thread),
       !.pre_event = stop_event,
       !.pre_quiet = \A w \in Workers : wrk[w].pc = "idle",
       !.pre_thread = logger_thread,
       !.pre_n = n_threads,
       !.pre_state = progress_state,
       !.pre_applied = applied,
       !.pre_file = progress_file,
       !.pre_log = perf_log.lines]

\* History is kept of the calls in progress and of the last call only.
Forget(c) ==
    [d \in Controllers |->
       IF d # c /\ ctl[d].pc = "idle" THEN IdleController ELSE ctl[d]]

Returned(r, outcome) == [r EXCEPT !.pc = "idle", !.outcome = outcome]

\* A start() without the test of lines 151-153.
StartCallAlways(c) ==
    /\ constructed
    /\ ctl[c].pc = "idle"
    /\ limits.overlap \/ OthersIdle(c)
    /\ n_calls < limits.calls
    /\ n_threads + Cardinality(Starting) < MaxThreads
    /\ n_calls' = n_calls + 1
    /\ ctl' = [Forget(c) EXCEPT ![c] =
                 [Calling(c, "start") EXCEPT !.pc = "start_check"]]
    /\ UNCHANGED << limits, config, progress_state, lock, stop_event,
                    logger_thread, thr, n_threads, progress_file, perf_log,
                    clock, constructed, wrk, n_updates, loaded, applied,
                    result,
                    current_progress, prod >>

\* start(), lines 151-153: the call, and the return when the logger thread
\* is alive.
StartCall(c) ==
    /\ constructed
    /\ ctl[c].pc = "idle"
    /\ limits.overlap \/ OthersIdle(c)
    /\ n_calls < limits.calls
    /\ IsAlive(logger_thread) \/ n_threads + Cardinality(Starting) < MaxThreads
    /\ n_calls' = n_calls + 1
    /\ ctl' = [Forget(c) EXCEPT ![c] =
                 IF IsAlive(logger_thread)
                 THEN Returned(Calling(c, "start"), "already_running")
                 ELSE [Calling(c, "start") EXCEPT !.pc = "start_check"]]
    /\ UNCHANGED << limits, config, progress_state, lock, stop_event, logger_thread,
                    thr, n_threads, progress_file, perf_log, clock,
                    constructed, wrk, n_updates, loaded, applied, result,
                    current_progress, prod >>

\* A start() without the test of lines 156-160.
StartCheckAlways(c) ==
    /\ ctl[c].pc = "start_check"
    /\ ctl' = [ctl EXCEPT ![c].pc = "start_clear"]
    /\ UNCHANGED << limits, config, progress_state, lock, stop_event,
                    logger_thread, thr, n_threads, progress_file, perf_log,
                    clock, constructed, wrk, n_updates, n_calls, loaded,
                    applied, result,
                    current_progress, prod >>

\* start(), lines 156-160: the return when the target is already met (the
\* read of trials_run takes no lock).
StartCheck(c) ==
    /\ ctl[c].pc = "start_check"
    /\ ctl' = [ctl EXCEPT ![c] =
                 IF progress_state.trials_run >= config.total_trials
                 THEN Returned(ctl[c], "complete")
                 ELSE [ctl[c] EXCEPT !.pc = "start_clear"]]
    /\ UNCHANGED << limits, config, progress_state, lock, stop_event, logger_thread,
                    thr, n_threads, progress_file, perf_log, clock,
                    constructed, wrk, n_updates, n_calls, loaded, applied, result,
                    current_progress, prod >>

\* A start() that leaves the stop signal as it finds it.
StartClearKeeps(c) ==
    /\ ctl[c].pc = "start_clear"
    /\ stop_event' = stop_event
    /\ ctl' = [ctl EXCEPT ![c].pc = "start_create"]
    /\ UNCHANGED << limits, config, progress_state, lock, logger_thread, thr,
                    n_threads, progress_file, perf_log, clock, constructed,
                    wrk, n_updates, n_calls, loaded, applied, result,
                    current_progress, prod >>

\* start(), line 162: self._stop_event.clear()
StartClear(c) ==
    /\ ctl[c].pc = "start_clear"
    /\ stop_event' = FALSE
    /\ ctl' = [ctl EXCEPT ![c].pc = "start_create"]
    /\ UNCHANGED << limits, config, progress_state, lock, logger_thread, thr,
                    n_threads, progress_file, perf_log, clock, constructed,
                    wrk, n_updates, n_calls, loaded, applied, result,
                    current_progress, prod >>

\* start(), line 163: self.logger_thread = threading.Thread(...)
StartCreate(c) ==
    /\ ctl[c].pc = "start_create"
    /\ n_threads < MaxThreads
    /\ n_threads' = n_threads + 1
    /\ logger_thread' = n_threads + 1
    /\ thr' = [thr EXCEPT ![n_threads + 1].pc = "created"]
    /\ ctl' = [ctl EXCEPT ![c].pc = "start_run"]
    /\ UNCHANGED << limits, config, progress_state, lock, stop_event, progress_file,
                    perf_log, clock, constructed, wrk, n_updates, n_calls,
                    loaded, applied, result,
                    current_progress, prod >>

\* start(), line 164: self.logger_thread.start(), which raises
\* RuntimeError for a thread that was started before.
StartRun(c) ==
    /\ ctl[c].pc = "start_run"
    /\ IF thr[logger_thread].pc = "created"
       THEN /\ thr' = [thr EXCEPT ![logger_thread].pc = "begin",
                                  ![logger_thread].starter = c]
            /\ ctl' = [ctl EXCEPT ![c] = Returned(ctl[c], "spawned")]
       ELSE /\ thr' = thr
            /\ ctl' = [ctl EXCEPT ![c] = Returned(ctl[c], "raised")]
    /\ UNCHANGED << limits, config, progress_state, lock, stop_event, logger_thread,
                    n_threads, progress_file, perf_log, clock, constructed,
                    wrk, n_updates, n_calls, loaded, applied, result,
                    current_progress, prod >>

\* stop(), line 172: the timeout of the join.
JoinTimeout ==
    Max(config.log_interval_sec, config.save_interval_sec) + JoinSlack

\* stop(), line 168: the call, and self._stop_event.set().
StopCall(c) ==
    /\ constructed
    /\ ctl[c].pc = "idle"
    /\ limits.overlap \/ OthersIdle(c)
    /\ n_calls < limits.calls
    /\ n_calls' = n_calls + 1
    /\ stop_event' = TRUE
    /\ ctl' = [Forget(c) EXCEPT ![c] =
                 [Calling(c, "stop") EXCEPT !.pc = "stop_check"]]
    /\ UNCHANGED << limits, config, progress_state, lock, logger_thread, thr,
                    n_threads, progress_file, perf_log, clock, constructed,
                    wrk, n_updates, loaded, applied, result,
                    current_progress, prod >>

\* A stop() with lines 180-181 in force: it logs and saves on its own
\* when no logger thread is alive.
StopCheckFlush(c) ==
    /\ ctl[c].pc = "stop_check"
    /\ IF IsAlive(logger_thread)
       THEN /\ ctl' = [ctl EXCEPT ![c].pc = "join",
                                  ![c].joined = logger_thread,
                                  ![c].deadline = clock + JoinTimeout]
            /\ UNCHANGED << progress_file, perf_log >>
       ELSE /\ ctl' = [ctl EXCEPT ![c] = Returned(ctl[c], "not_running")]
            /\ perf_log' = AppendLine(perf_log, HeaderDue(perf_log),
                              DataLine(clock, progress_state.trials_run,
                                       progress_state.solutions, NoThread,
                                       "final"))
            /\ progress_file' = WriteFile(progress_state.solutions,
                                          progress_state.trials_run,
                                          NoThread, "final")
    /\ UNCHANGED << limits, config, progress_state, lock, stop_event,
                    logger_thread, thr, n_threads, clock, constructed, wrk,
                    n_updates, n_calls, loaded, applied, result,
                    current_progress, prod >>

\* stop(), lines 169-176: the join begins when the logger thread is alive;
\* otherwise the call returns.
StopCheck(c) ==
    /\ ctl[c].pc = "stop_check"
    /\ ctl' = [ctl EXCEPT ![c] =
                 IF IsAlive(logger_thread)
                 THEN [ctl[c] EXCEPT !.pc = "join",
                                     !.joined = logger_thread,
                                     !.deadline = clock + JoinTimeout]
                 ELSE Returned(ctl[c], "not_running")]
    /\ UNCHANGED << limits, config, progress_state, lock, stop_event, logger_thread,
                    thr, n_threads, progress_file, perf_log, clock,
                    constructed, wrk, n_updates, n_calls, loaded, applied, result,
                    current_progress, prod >>

\* A join() without a timeout.
StopJoinForever(c) ==
    /\ ctl[c].pc = "join"
    /\ ~IsAlive(ctl[c].joined)
    /\ ctl' = [ctl EXCEPT ![c] = Returned(ctl[c], "joined")]
    /\ UNCHANGED << limits, config, progress_state, lock, stop_event,
                    logger_thread, thr, n_threads, progress_file, perf_log,
                    clock, constructed, wrk, n_updates, n_calls, loaded,
                    applied, result,
                    current_progress, prod >>

\* stop(), lines 172-174: the join returns, because the thread has ended
\* or because the timeout has passed, and the call returns.
StopJoin(c) ==
    /\ ctl[c].pc = "join"
    /\ ~IsAlive(ctl[c].joined) \/ clock >= ctl[c].deadline
    /\ ctl' = [ctl EXCEPT ![c] =
                 Returned(ctl[c], IF IsAlive(logger_thread)
                                  THEN "timed_out" ELSE "joined")]
    /\ UNCHANGED << limits, config, progress_state, lock, stop_event, logger_thread,
                    thr, n_threads, progress_file, perf_log, clock,
                    constructed, wrk, n_updates, n_calls, loaded, applied, result,
                    current_progress, prod >>

\* ---------------------------------------------------- get_final_probability

\* get_final_probability(): the locked read of the counters and the
\* quotient.
GetFinalProbability ==
    /\ constructed
    /\ CanAcquire
    /\ result' = [called |-> TRUE,
                  value |-> FinalProbability(progress_state,
                                             config.total_trials),
                  of |-> progress_state]
    /\ UNCHANGED << limits, config, progress_state, lock, stop_event,
                    logger_thread, thr, n_threads, progress_file, perf_log,
                    clock, constructed, wrk, ctl, n_updates, n_calls, loaded,
                    applied,
                    current_progress, prod >>

\* ------------------------------------------------------ get_current_progress

\* A get_current_progress that reads the counters without the lock.
GetCurrentProgressUnlocked ==
    /\ constructed
    /\ current_progress' =
         [called |-> TRUE,
          value |-> << progress_state.solutions, progress_state.trials_run >>,
          at |-> n_updates]
    /\ UNCHANGED << limits, config, progress_state, lock, stop_event,
                    logger_thread, thr, n_threads, progress_file, perf_log,
                    clock, constructed, wrk, ctl, n_updates, n_calls, loaded,
                    applied, result, prod >>

\* A get_current_progress that saves the counters it returns.
GetCurrentProgressSaving ==
    /\ constructed
    /\ CanAcquire
    /\ current_progress' =
         [called |-> TRUE,
          value |-> << progress_state.solutions, progress_state.trials_run >>,
          at |-> n_updates]
    /\ progress_file' = WriteFile(progress_state.solutions,
                                  progress_state.trials_run, NoThread, "read")
    /\ UNCHANGED << limits, config, progress_state, lock, stop_event,
                    logger_thread, thr, n_threads, perf_log, clock,
                    constructed, wrk, ctl, n_updates, n_calls, loaded,
                    applied, result, prod >>

\* get_current_progress(), lines 186-187: the pair of the counters, read
\* under the lock.
GetCurrentProgress ==
    /\ constructed
    /\ CanAcquire
    /\ current_progress' =
         [called |-> TRUE,
          value |-> << progress_state.solutions, progress_state.trials_run >>,
          at |-> n_updates]
    /\ UNCHANGED << limits, config, progress_state, lock, stop_event,
                    logger_thread, thr, n_threads, progress_file, perf_log,
                    clock, constructed, wrk, ctl, n_updates, n_calls, loaded,
                    applied, result, prod >>

\* ------------------------------------------------------------------- time

\* Time passes: second by second to the horizon, and beyond it in one leap to
\* the deadline of a join that waits for its timeout.
Tick ==
    /\ constructed
    /\ \/ clock < limits.horizon /\ clock' = clock + 1
       \/ \E c \in Controllers :
            /\ ctl[c].pc = "join"
            /\ clock >= limits.horizon
            /\ clock < ctl[c].deadline
            /\ clock' = ctl[c].deadline
    /\ UNCHANGED << limits, config, progress_state, lock, stop_event, logger_thread,
                    thr, n_threads, progress_file, perf_log, constructed,
                    wrk, ctl, n_updates, n_calls, loaded, applied, result,
                    current_progress, prod >>

\* Line 124: the time of a wait runs out. Beyond the horizon the clock
\* goes on only for the wait of a logger thread that has yet to notice that
\* the target is met, in one leap to the end of that wait.
WaitElapses ==
    /\ constructed
    /\ clock >= limits.horizon
    /\ progress_state.trials_run >= config.total_trials
    /\ \E t \in Threads :
         /\ thr[t].pc = "wait"
         /\ clock < thr[t].wake
         /\ clock' = thr[t].wake
    /\ UNCHANGED << limits, config, progress_state, lock, stop_event,
                    logger_thread, thr, n_threads, progress_file, perf_log,
                    constructed, wrk, ctl, n_updates, n_calls, loaded,
                    applied, result, current_progress, prod >>

\* --------------------------------------------------------- specifications

WorkerStep ==
    \/ \E w \in Workers, b \in Batches : UpdateCall(w, b[1], b[2])
    \/ \E w \in Workers : UpdateSolutions(w)
    \/ \E w \in Workers : UpdateTrials(w)

ThreadStep ==
    \/ \E t \in Threads : ThreadBegin(t)
    \/ \E t \in Threads : LoopHead(t)
    \/ \E t \in Threads : Wait(t)
    \/ \E t \in Threads : AfterWait(t)
    \/ \E t \in Threads : LogSnap(t)
    \/ \E t \in Threads : LogAppend(t)
    \/ \E t \in Threads : SaveSnap(t)
    \/ \E t \in Threads : SaveOpen(t)
    \/ \E t \in Threads : SaveWrite(t)

ControllerStep ==
    \/ \E c \in Controllers : StartCheck(c)
    \/ \E c \in Controllers : StartClear(c)
    \/ \E c \in Controllers : StartCreate(c)
    \/ \E c \in Controllers : StartRun(c)
    \/ \E c \in Controllers : StopCheck(c)
    \/ \E c \in Controllers : StopJoin(c)

Next ==
    \/ Construct
    \/ WorkerStep
    \/ ThreadStep
    \/ ControllerStep
    \/ \E c \in Controllers : StartCall(c)
    \/ \E c \in Controllers : StopCall(c)
    \/ Tick

\* The calls of start() and stop() follow one another.
Spec == Init /\ [][Next]_vars

\* A file system that may refuse. The logger thread and the workers go on
\* running; the tasks that call start() and stop() are not obliged to make
\* another call.
SpecFault ==
    /\ InitFault /\ [][Next]_vars
    /\ WF_vars(ThreadStep)
    /\ WF_vars(WorkerStep)

\* Trackers constructed on any checkpoint file.
SpecStore == InitStore /\ [][Next]_vars

\* Trackers that follow one another on the same files.
NextTrip ==
    \/ Next
    \/ Discard

SpecTrip == InitTrip /\ [][NextTrip]_vars

\* get_final_probability on its own: a constructed tracker with any
\* counters and any target up to MaxProb, one worker, no logger thread.
InitProb ==
    /\ limits = LimitsOf(1, 0, 0, FALSE)
    /\ \E total \in 0..MaxProb : config = Attributes(ConfigOf(total, 1, 1))
    /\ \E t \in 0..MaxProb : \E s \in 0..t :
         /\ progress_state = [solutions |-> s, trials_run |-> t]
         /\ loaded = [solutions |-> s, trials_run |-> t]
         /\ progress_file = IF t = 0 THEN AbsentFile ELSE JsonFile(s, t)
         /\ perf_log = AppendLine(AbsentLog, TRUE,
                                  DataLine(0, t, s, NoThread, "loaded"))
    /\ lock = "free"
    /\ stop_event = FALSE
    /\ logger_thread = NoThread
    /\ thr = [t \in Threads |-> IdleThread]
    /\ n_threads = 0
    /\ clock = 0
    /\ constructed = TRUE
    /\ wrk = [w \in {"w1"} |-> IdleWorker]
    /\ ctl = [c \in {"c1"} |-> IdleController]
    /\ n_updates = 0
    /\ n_calls = 0
    /\ applied = [solutions |-> 0, trials_run |-> 0]
    /\ result = NoResult
    /\ current_progress = NoProgress
    /\ prod = NoProducer

NextProb ==
    \/ WorkerStep
    \/ GetFinalProbability

SpecProb == InitProb /\ [][NextProb]_vars

SpecLife == InitLife /\ [][Next]_vars

\* The calls of start() and stop() of two tasks may overlap.
SpecRace == InitRace /\ [][Next]_vars

\* Overlapping calls, with time passing and each task that is inside stop()
\* going on to run: neither the workers nor the logger thread are obliged to
\* take another step, so an update may keep the lock and the logger thread
\* may never end.
SpecStop ==
    /\ InitRace /\ [][Next]_vars
    /\ WF_vars(Tick)
    /\ \A c \in {"c1", "c2"} :
         WF_vars(StopCheck(c)) /\ WF_vars(StopJoin(c))

\* Calls of get_current_progress and get_final_probability beside the
\* workers, the logger thread and the calls of start() and stop().
NextRead ==
    \/ Next
    \/ GetCurrentProgress
    \/ GetFinalProbability

SpecRead == InitRead /\ [][NextRead]_vars

\* The construction with any label and any prefixes, and the updates.
NextPath ==
    \/ Construct
    \/ WorkerStep

SpecPath == InitPath /\ [][NextPath]_vars

\* A logger thread that runs on: time passes, the logger thread and the
\* workers go on running; the tasks that call start() and stop() are not
\* obliged to make another call.
NextTarget ==
    \/ Next
    \/ WaitElapses

SpecTarget ==
    /\ InitTarget /\ [][NextTarget]_vars
    /\ WF_vars(ThreadStep)
    /\ WF_vars(WorkerStep)
    /\ WF_vars(Tick)
    /\ WF_vars(WaitElapses)

\* ----------------------------------------------------------- the producers
\* ComputeSimple.compute, ComputeMultiprocess.compute and the workers of
\* ComputeMultithread.compute, each driving a tracker of its own. The logger
\* thread that compute() starts and stops is left out: it changes no
\* counter.

\* A producer and its locals. size is batch_size (local_update_interval for
\* the threads of ComputeMultithread). active: the batches submitted to the
\* pool and not yet collected. task: the locals of each worker thread.
\* ret: what compute() returns. (call, done, stops, failed are history: the
\* arguments of the last update_progress call, the solutions and trials of
\* the work that has been completed, the calls of logger.stop(), and the
\* batches whose future raised.)
Producer(kind, size, workers) ==
    [kind |-> kind, size |-> size, num_workers |-> workers, pc |-> "init",
     batch |-> 0, bs |-> 0, bt |-> 0, submitted |-> 0, active |-> << >>,
     task |-> [w \in 1..workers |->
                 [pc |-> "check", local_solutions |-> 0,
                  local_trials_count |-> 0]],
     call |-> << 0, 0 >>,
     done |-> [solutions |-> 0, trials_run |-> 0],
     stops |-> 0, failed |-> 0, ret |-> << 0, 1 >>]

\* update_progress(bs, bt) as a whole, lines 93-97, on counters.
UpdateProgress(state, bs, bt) ==
    IF bt = 0 THEN state
    ELSE [solutions |-> state.solutions + bs,
          trials_run |-> state.trials_run + bt]

\* A producer calls update_progress(bs, bt), and the call returns.
Report(bs, bt) ==
    /\ progress_state' = UpdateProgress(progress_state, bs, bt)
    /\ applied' = UpdateProgress(applied, bs, bt)
    /\ n_updates' = n_updates + 1

\* run_batch (ComputeSimple) and run_trials_worker (ComputeMultiprocess):
\* the solutions among the trials of a batch, and the size of the batch.
\* outcomes[i] tells whether trial i was a 'Solution'.
RunBatch(outcomes) ==
    << Cardinality({ i \in DOMAIN outcomes : outcomes[i] }), Len(outcomes) >>

\* The work that has been completed, with one more batch.
DoneWith(bs, bt) ==
    [solutions |-> prod.done.solutions + bs,
     trials_run |-> prod.done.trials_run + bt]

\* compute() calls logger.stop() and returns
\* logger.get_final_probability() (ComputeSimple lines 32-33 and 58-60,
\* ComputeMultiprocess lines 36-37 and 97-101).
Returns(p) ==
    [p EXCEPT !.pc = "done", !.stops = @ + 1,
              !.ret = FinalProbability(progress_state, config.total_trials)]

\* An exception leaves the try block of compute(): the finally clause calls
\* logger.stop(), and nothing is returned (ComputeSimple lines 57-58,
\* ComputeMultiprocess lines 96-97).
Raises(p) == [p EXCEPT !.pc = "raised", !.stops = @ + 1]

\* An early return that leaves the logger as it is.
SimpleInitNoStop ==
    /\ prod.kind = "simple" /\ prod.pc = "init"
    /\ prod' = IF progress_state.trials_run >= config.total_trials
               THEN [Returns(prod) EXCEPT !.stops = prod.stops]
               ELSE [prod EXCEPT !.pc = "loop"]
    /\ UNCHANGED << limits, config, progress_state, lock, stop_event,
                    logger_thread, thr, n_threads, progress_file, perf_log,
                    clock, constructed, wrk, ctl, n_updates, n_calls, loaded,
                    applied, result, current_progress >>

\* ComputeSimple.compute, lines 27-35: nothing is left to do, or the loop
\* begins.
SimpleInit ==
    /\ prod.kind = "simple" /\ prod.pc = "init"
    /\ prod' = IF progress_state.trials_run >= config.total_trials
               THEN Returns(prod)
               ELSE [prod EXCEPT !.pc = "loop"]
    /\ UNCHANGED << limits, config, progress_state, lock, stop_event,
                    logger_thread, thr, n_threads, progress_file, perf_log,
                    clock, constructed, wrk, ctl, n_updates, n_calls, loaded,
                    applied, result, current_progress >>

\* ComputeSimple.compute, lines 40-49: the size of the next batch.
SimpleLoop ==
    /\ prod.kind = "simple" /\ prod.pc = "loop"
    /\ LET current_trials_run == progress_state.trials_run
           current_batch_to_run ==
               Min(prod.size, config.total_trials - current_trials_run)
       IN  prod' = IF current_trials_run >= config.total_trials
                      \/ current_batch_to_run <= 0
                   THEN Returns(prod)
                   ELSE [prod EXCEPT !.pc = "run",
                                     !.batch = current_batch_to_run]
    /\ UNCHANGED << limits, config, progress_state, lock, stop_event,
                    logger_thread, thr, n_threads, progress_file, perf_log,
                    clock, constructed, wrk, ctl, n_updates, n_calls, loaded,
                    applied, result, current_progress >>

\* ComputeSimple.compute, line 52: run_batch returns its counts, or a
\* trial raises.
SimpleRun ==
    /\ prod.kind = "simple" /\ prod.pc = "run"
    /\ \/ \E outcomes \in [1..prod.batch -> BOOLEAN] :
            LET res == RunBatch(outcomes)
            IN  prod' = [prod EXCEPT !.pc = "update", !.bs = res[1],
                                     !.bt = res[2],
                                     !.done = DoneWith(res[1], res[2])]
       \/ prod' = Raises(prod)
    /\ UNCHANGED << limits, config, progress_state, lock, stop_event,
                    logger_thread, thr, n_threads, progress_file, perf_log,
                    clock, constructed, wrk, ctl, n_updates, n_calls, loaded,
                    applied, result, current_progress >>

\* ComputeSimple.compute, line 55: the batch is reported.
SimpleUpdate ==
    /\ prod.kind = "simple" /\ prod.pc = "update"
    /\ Report(prod.bs, prod.bt)
    /\ prod' = [prod EXCEPT !.pc = "loop", !.call = << prod.bs, prod.bt >>]
    /\ UNCHANGED << limits, config, lock, stop_event, logger_thread, thr,
                    n_threads, progress_file, perf_log, clock, constructed,
                    wrk, ctl, n_calls, loaded, result, current_progress >>

\* Batches of batch_size, whatever is left to submit.
RECURSIVE SubmitWhole(_, _, _)
SubmitWhole(k, submitted, active) ==
    IF k = 0 \/ submitted >= config.total_trials \/ prod.size <= 0
    THEN [submitted |-> submitted, active |-> active]
    ELSE SubmitWhole(k - 1, submitted + prod.size,
                     Append(active, prod.size))

\* ComputeMultiprocess.compute, lines 52-61 and 90-95: up to k batches are
\* submitted while trials are left to submit.
RECURSIVE Submit(_, _, _)
Submit(k, submitted, active) ==
    LET current_batch_to_submit ==
            Min(prod.size, config.total_trials - submitted)
    IN  IF k = 0 \/ submitted >= config.total_trials
           \/ current_batch_to_submit <= 0
        THEN [submitted |-> submitted, active |-> active]
        ELSE Submit(k - 1, submitted + current_batch_to_submit,
                    Append(active, current_batch_to_submit))

\* ComputeMultiprocess.compute, lines 32-61: nothing is left to do, or the
\* first batches are submitted, one for each worker.
MultiprocessInit ==
    /\ prod.kind = "multiprocess" /\ prod.pc = "init"
    /\ LET initial_run == progress_state.trials_run
           sub == Submit(prod.num_workers, initial_run, << >>)
       IN  prod' = IF initial_run >= config.total_trials
                   THEN Returns(prod)
                   ELSE [prod EXCEPT !.pc = "wait",
                                     !.submitted = sub.submitted,
                                     !.active = sub.active]
    /\ UNCHANGED << limits, config, progress_state, lock, stop_event,
                    logger_thread, thr, n_threads, progress_file, perf_log,
                    clock, constructed, wrk, ctl, n_updates, n_calls, loaded,
                    applied, result, current_progress >>

\* The sequence s without its element i.
Without(s, i) == SubSeq(s, 1, i - 1) \o SubSeq(s, i + 1, Len(s))

\* ComputeMultiprocess.compute, lines 63-78: the loop ends when no batch is
\* active; otherwise one of the active batches is collected, and its result
\* is that of run_trials_worker, or an exception, which skips the batch.
MultiprocessWait ==
    /\ prod.kind = "multiprocess" /\ prod.pc = "wait"
    /\ IF prod.active = << >>
       THEN prod' = Returns(prod)
       ELSE \E i \in DOMAIN prod.active :
              \/ prod' = [prod EXCEPT !.active = Without(prod.active, i),
                                      !.failed = @ + 1]
              \/ \E outcomes \in [1..prod.active[i] -> BOOLEAN] :
                    LET res == RunBatch(outcomes)
                    IN  prod' = [prod EXCEPT
                                   !.active = Without(prod.active, i),
                                   !.pc = "update", !.bs = res[1],
                                   !.bt = res[2],
                                   !.done = DoneWith(res[1], res[2])]
    /\ UNCHANGED << limits, config, progress_state, lock, stop_event,
                    logger_thread, thr, n_threads, progress_file, perf_log,
                    clock, constructed, wrk, ctl, n_updates, n_calls, loaded,
                    applied, result, current_progress >>

\* ComputeMultiprocess.compute, lines 87-95: the batch is reported, and one
\* more batch is submitted when trials are left to submit; or, the pool
\* being broken by a process that died, the submit of line 93 raises.
MultiprocessUpdate ==
    /\ prod.kind = "multiprocess" /\ prod.pc = "update"
    /\ Report(prod.bs, prod.bt)
    /\ LET sub == Submit(1, prod.submitted, prod.active)
       IN  \/ prod' = [prod EXCEPT !.pc = "wait",
                                   !.call = << prod.bs, prod.bt >>,
                                   !.submitted = sub.submitted,
                                   !.active = sub.active]
           \/ /\ prod.failed > 0 /\ sub.submitted > prod.submitted
              /\ prod' = Raises([prod EXCEPT
                                   !.call = << prod.bs, prod.bt >>])
    /\ UNCHANGED << limits, config, lock, stop_event, logger_thread, thr,
                    n_threads, progress_file, perf_log, clock, constructed,
                    wrk, ctl, n_calls, loaded, result, current_progress >>

\* ComputeMultithread.run_trials_worker, lines 24-26: the worker leaves its
\* loop when the target is met.
WorkerCheck(w) ==
    /\ prod.kind = "multithread" /\ prod.task[w].pc = "check"
    /\ prod' = [prod EXCEPT !.task[w].pc =
                   IF progress_state.trials_run >= config.total_trials
                   THEN "rest" ELSE "trial"]
    /\ UNCHANGED << limits, config, progress_state, lock, stop_event,
                    logger_thread, thr, n_threads, progress_file, perf_log,
                    clock, constructed, wrk, ctl, n_updates, n_calls, loaded,
                    applied, result, current_progress >>

\* ComputeMultithread.run_trials_worker, lines 28-33: one trial.
WorkerTrial(w) ==
    /\ prod.kind = "multithread" /\ prod.task[w].pc = "trial"
    /\ \E solution \in BOOLEAN :
         LET found == IF solution THEN 1 ELSE 0
         IN  prod' = [prod EXCEPT
                        !.task[w].local_solutions = @ + found,
                        !.task[w].local_trials_count = @ + 1,
                        !.task[w].pc =
                            IF prod.task[w].local_trials_count + 1
                                 >= prod.size
                            THEN "update" ELSE "check",
                        !.done = DoneWith(found, 1)]
    /\ UNCHANGED << limits, config, progress_state, lock, stop_event,
                    logger_thread, thr, n_threads, progress_file, perf_log,
                    clock, constructed, wrk, ctl, n_updates, n_calls, loaded,
                    applied, result, current_progress >>

\* A worker that reports its counters and goes on counting from them.
WorkerUpdateKeeps(w) ==
    /\ prod.kind = "multithread" /\ prod.task[w].pc = "update"
    /\ LET me == prod.task[w]
       IN  IF me.local_trials_count > 0
           THEN /\ Report(me.local_solutions, me.local_trials_count)
                /\ prod' = [prod EXCEPT
                               !.task[w].pc = "check",
                               !.call = << me.local_solutions,
                                           me.local_trials_count >>]
           ELSE /\ UNCHANGED << progress_state, applied, n_updates >>
                /\ prod' = [prod EXCEPT !.task[w].pc = "check"]
    /\ UNCHANGED << limits, config, lock, stop_event, logger_thread, thr,
                    n_threads, progress_file, perf_log, clock, constructed,
                    wrk, ctl, n_calls, loaded, result, current_progress >>

\* ComputeMultithread.run_trials_worker, lines 34-37: the local counters are
\* reported when there is something to report, and reset.
WorkerUpdate(w) ==
    /\ prod.kind = "multithread" /\ prod.task[w].pc = "update"
    /\ LET me == prod.task[w]
       IN  IF me.local_trials_count > 0
           THEN /\ Report(me.local_solutions, me.local_trials_count)
                /\ prod' = [prod EXCEPT
                               !.task[w].pc = "check",
                               !.task[w].local_solutions = 0,
                               !.task[w].local_trials_count = 0,
                               !.call = << me.local_solutions,
                                           me.local_trials_count >>]
           ELSE /\ UNCHANGED << progress_state, applied, n_updates >>
                /\ prod' = [prod EXCEPT
                               !.task[w].pc = "check",
                               !.task[w].local_solutions = 0,
                               !.task[w].local_trials_count = 0]
    /\ UNCHANGED << limits, config, lock, stop_event, logger_thread, thr,
                    n_threads, progress_file, perf_log, clock, constructed,
                    wrk, ctl, n_calls, loaded, result, current_progress >>

\* A worker that returns with what is left in its local counters.
WorkerRestDrops(w) ==
    /\ prod.kind = "multithread" /\ prod.task[w].pc = "rest"
    /\ prod' = [prod EXCEPT !.task[w].pc = "done"]
    /\ UNCHANGED << limits, config, progress_state, lock, stop_event,
                    logger_thread, thr, n_threads, progress_file, perf_log,
                    clock, constructed, wrk, ctl, n_updates, n_calls, loaded,
                    applied, result, current_progress >>

\* ComputeMultithread.run_trials_worker, lines 40-41: what is left in the
\* local counters is reported, and the worker returns.
WorkerRest(w) ==
    /\ prod.kind = "multithread" /\ prod.task[w].pc = "rest"
    /\ LET me == prod.task[w]
       IN  IF me.local_trials_count > 0
           THEN /\ Report(me.local_solutions, me.local_trials_count)
                /\ prod' = [prod EXCEPT
                               !.task[w].pc = "done",
                               !.call = << me.local_solutions,
                                           me.local_trials_count >>]
           ELSE /\ UNCHANGED << progress_state, applied, n_updates >>
                /\ prod' = [prod EXCEPT !.task[w].pc = "done"]
    /\ UNCHANGED << limits, config, lock, stop_event, logger_thread, thr,
                    n_threads, progress_file, perf_log, clock, constructed,
                    wrk, ctl, n_calls, loaded, result, current_progress >>

\* The producers that are modelled: each kind with every batch size and
\* number of workers within the bounds.
Producers ==
    { Producer("simple", size, 1) : size \in 0..ProdBatch }
    \cup { Producer("multiprocess", size, n) :
             size \in 0..ProdBatch, n \in 1..ProdWorkers }
    \cup { Producer("multithread", size, n) :
             size \in 0..ProdBatch, n \in 1..ProdWorkers }

\* A producer on a tracker that has just been constructed, on no checkpoint
\* or on the checkpoint (1, 2), for any target up to ProdTrials.
InitProd ==
    /\ limits = LimitsOf(0, 0, 0, FALSE)
    /\ \E total \in 0..ProdTrials :
         config = Attributes(ConfigOf(total, 1, 1))
    /\ \E st \in { [solutions |-> 0, trials_run |-> 0],
                    [solutions |-> 1, trials_run |-> 2] } :
         /\ progress_state = st
         /\ loaded = st
         /\ progress_file = IF st.trials_run = 0 THEN AbsentFile
                            ELSE JsonFile(st.solutions, st.trials_run)
         /\ perf_log = AppendLine(AbsentLog, TRUE,
                                  DataLine(0, st.trials_run, st.solutions,
                                           NoThread, "loaded"))
    /\ prod \in Producers
    /\ lock = "free"
    /\ stop_event = FALSE
    /\ logger_thread = NoThread
    /\ thr = [t \in Threads |-> IdleThread]
    /\ n_threads = 0
    /\ clock = 0
    /\ constructed = TRUE
    /\ wrk = [w \in {"w1"} |-> IdleWorker]
    /\ ctl = [c \in {"c1"} |-> IdleController]
    /\ n_updates = 0
    /\ n_calls = 0
    /\ applied = [solutions |-> 0, trials_run |-> 0]
    /\ result = NoResult
    /\ current_progress = NoProgress

NextProd ==
    \/ SimpleInit
    \/ SimpleLoop
    \/ SimpleRun
    \/ SimpleUpdate
    \/ MultiprocessInit
    \/ MultiprocessWait
    \/ MultiprocessUpdate
    \/ \E w \in DOMAIN prod.task : WorkerCheck(w)
    \/ \E w \in DOMAIN prod.task : WorkerTrial(w)
    \/ \E w \in DOMAIN prod.task : WorkerUpdate(w)
    \/ \E w \in DOMAIN prod.task : WorkerRest(w)

SpecProd == InitProd /\ [][NextProd]_vars

\* The steps of ComputeSimple.compute, of ComputeMultiprocess.compute (with
\* the batches its pool completes) and of worker thread w of
\* ComputeMultithread.
SimpleStep == SimpleInit \/ SimpleLoop \/ SimpleRun \/ SimpleUpdate
MultiprocessStep == MultiprocessInit \/ MultiprocessWait \/ MultiprocessUpdate
WorkerRun(w) ==
    /\ w \in DOMAIN prod.task
    /\ WorkerCheck(w) \/ WorkerTrial(w) \/ WorkerUpdate(w) \/ WorkerRest(w)

\* The producers when every thread goes on running: the main thread of
\* compute(), the pool of processes, and each worker thread of the pool of
\* threads.
SpecProdFair ==
    /\ InitProd /\ [][NextProd]_vars
    /\ WF_vars(SimpleStep)
    /\ WF_vars(MultiprocessStep)
    /\ \A w \in 1..ProdWorkers : WF_vars(WorkerRun(w))

\* A longer time: the logger thread may log and save more than once.
SpecPace == InitPace /\ [][Next]_vars

\* ------------------------------------------------- ComputeMultithread2.py
\* compute() with counters of its own, shared by its worker threads and its
\* logger thread; it makes no use of CentralizedLogger.

\* compute() and its threads. solutions, trials_run: the two shared Value
\* counters. size: update_interval of run_trials. task: the locals of each
\* worker thread. logger: the position and the locals of logger_thread.
\* file: progress.json. ret: what compute() returns. (executed is history:
\* the trials the workers have executed.)
SharedProducer(size, workers, file) ==
    [kind |-> "multithread2", size |-> size, num_workers |-> workers,
     pc |-> "init", solutions |-> 0, trials_run |-> 0,
     task |-> [w \in 1..workers |->
                 [pc |-> "unborn", local_solutions |-> 0,
                  local_trials |-> 0]],
     logger |-> [pc |-> "unborn", current_solutions |-> 0,
                 current_trials |-> 0],
     file |-> file, ret |-> << 0, 1 >>, executed |-> 0]

\* load_progress, lines 58-64.
SharedLoad(file) ==
    IF file.kind = "json"
    THEN [solutions |-> file.count_solutions, trials_run |-> file.count_run]
    ELSE [solutions |-> 0, trials_run |-> 0]

\* The variables of the tracker, of which this compute() makes no use.
TrackerUnchanged ==
    UNCHANGED << limits, config, progress_state, lock, stop_event,
                 logger_thread, thr, n_threads, progress_file, perf_log,
                 clock, constructed, wrk, ctl, n_updates, n_calls, loaded,
                 applied, result, current_progress >>

\* compute, lines 81-110: the progress is loaded; nothing is left to do and
\* compute() returns, or the logger thread and the worker threads are
\* started.
SharedInit ==
    /\ prod.kind = "multithread2" /\ prod.pc = "init"
    /\ LET count == SharedLoad(prod.file)
           trials_remaining == config.total_trials - count.trials_run
       IN  prod' =
             IF trials_remaining <= 0
             THEN [prod EXCEPT
                     !.pc = "done",
                     !.solutions = count.solutions,
                     !.trials_run = count.trials_run,
                     !.ret = IF config.total_trials > 0
                             THEN << count.solutions, config.total_trials >>
                             ELSE << 0, 1 >>]
             ELSE [prod EXCEPT
                     !.pc = "poll",
                     !.solutions = count.solutions,
                     !.trials_run = count.trials_run,
                     !.logger.pc = "test",
                     !.task = [w \in DOMAIN prod.task |->
                                 [prod.task[w] EXCEPT !.pc = "trial"]]]
    /\ TrackerUnchanged

\* compute, lines 113-114: the main thread leaves its loop when trials_run
\* has reached total_trials, and the with block of the pool ends.
SharedPoll ==
    /\ prod.kind = "multithread2" /\ prod.pc = "poll"
    /\ prod.trials_run >= config.total_trials
    /\ prod' = [prod EXCEPT !.pc = "shutdown"]
    /\ TrackerUnchanged

\* compute, line 108: the end of the with block is
\* executor.shutdown(wait=True), which returns when every task of the pool
\* has ended.
SharedShutdown ==
    /\ prod.kind = "multithread2" /\ prod.pc = "shutdown"
    /\ \A w \in DOMAIN prod.task : prod.task[w].pc = "raised"
    /\ prod' = [prod EXCEPT !.pc = "join"]
    /\ TrackerUnchanged

\* compute, lines 117-121: logger.join(timeout=5) returns, the logger
\* thread having ended or not, and compute() returns the quotient of the
\* counters.
SharedJoin ==
    /\ prod.kind = "multithread2" /\ prod.pc = "join"
    /\ prod' = [prod EXCEPT
                  !.pc = "done",
                  !.ret = IF prod.trials_run > 0
                          THEN << prod.solutions, prod.trials_run >>
                          ELSE << 0, 1 >>]
    /\ TrackerUnchanged

\* run_trials, lines 18-23: one trial, which counts or raises; the loop has
\* no other way out.
SharedTrial(w) ==
    /\ prod.kind = "multithread2" /\ prod.task[w].pc = "trial"
    /\ prod.executed < SharedTrials
    /\ \/ \E solution \in BOOLEAN :
            prod' = [prod EXCEPT
                       !.task[w].local_solutions =
                           @ + IF solution THEN 1 ELSE 0,
                       !.task[w].local_trials = @ + 1,
                       !.task[w].pc =
                           IF prod.task[w].local_trials + 1 >= prod.size
                           THEN "add_solutions" ELSE "trial",
                       !.executed = @ + 1]
       \/ prod' = [prod EXCEPT !.task[w].pc = "raised"]
    /\ TrackerUnchanged

\* run_trials, lines 24-25: solutions.value += local_solutions.
SharedAddSolutions(w) ==
    /\ prod.kind = "multithread2" /\ prod.task[w].pc = "add_solutions"
    /\ prod' = [prod EXCEPT
                  !.solutions = @ + prod.task[w].local_solutions,
                  !.task[w].pc = "add_trials"]
    /\ TrackerUnchanged

\* run_trials, lines 26-29: trials_run.value += local_trials, and the local
\* counters are reset.
SharedAddTrials(w) ==
    /\ prod.kind = "multithread2" /\ prod.task[w].pc = "add_trials"
    /\ prod' = [prod EXCEPT
                  !.trials_run = @ + prod.task[w].local_trials,
                  !.task[w].local_solutions = 0,
                  !.task[w].local_trials = 0,
                  !.task[w].pc = "trial"]
    /\ TrackerUnchanged

\* logger_thread, lines 35-48: the loop test; the sleep and the reading of
\* the counters; the log and, when the save interval has gone by, the save;
\* and after the loop the final save.
SharedLogger ==
    /\ prod.kind = "multithread2"
    /\ \/ /\ prod.logger.pc = "test"
          /\ prod' = [prod EXCEPT !.logger.pc =
                         IF prod.trials_run < config.total_trials
                         THEN "sleep" ELSE "final"]
       \/ /\ prod.logger.pc = "sleep"
          /\ prod' = [prod EXCEPT
                        !.logger.pc = "log",
                        !.logger.current_solutions = prod.solutions,
                        !.logger.current_trials = prod.trials_run]
       \/ /\ prod.logger.pc = "log"
          /\ \E due \in BOOLEAN :
               prod' = [prod EXCEPT
                          !.logger.pc = "test",
                          !.file =
                             IF due
                             THEN JsonFile(prod.logger.current_solutions,
                                           prod.logger.current_trials)
                             ELSE prod.file]
       \/ /\ prod.logger.pc = "final"
          /\ prod' = [prod EXCEPT
                        !.logger.pc = "dead",
                        !.file = JsonFile(prod.solutions, prod.trials_run)]
    /\ TrackerUnchanged

\* compute() of ComputeMultithread2 with 1 or 2 worker threads, every
\* update_interval within the bound and every target, on no progress file
\* or on the file of an earlier run.
InitShared ==
    /\ \E total \in 0..ProdTrials :
         config = Attributes(ConfigOf(total, 1, 1))
    /\ \E size \in 1..ProdBatch : \E n \in 1..ProdWorkers :
       \E file \in {AbsentFile, JsonFile(1, 2)} :
         prod = SharedProducer(size, n, file)
    /\ limits = LimitsOf(0, 0, 0, FALSE)
    /\ progress_state = [solutions |-> 0, trials_run |-> 0]
    /\ loaded = [solutions |-> 0, trials_run |-> 0]
    /\ progress_file = AbsentFile
    /\ perf_log = AbsentLog
    /\ lock = "free"
    /\ stop_event = FALSE
    /\ logger_thread = NoThread
    /\ thr = [t \in Threads |-> IdleThread]
    /\ n_threads = 0
    /\ clock = 0
    /\ constructed = FALSE
    /\ wrk = [w \in {"w1"} |-> IdleWorker]
    /\ ctl = [c \in {"c1"} |-> IdleController]
    /\ n_updates = 0
    /\ n_calls = 0
    /\ applied = [solutions |-> 0, trials_run |-> 0]
    /\ result = NoResult
    /\ current_progress = NoProgress

\* The steps of worker thread w of the pool.
SharedWorker(w) ==
    /\ w \in DOMAIN prod.task
    /\ SharedTrial(w) \/ SharedAddSolutions(w) \/ SharedAddTrials(w)

NextShared ==
    \/ SharedInit
    \/ SharedPoll
    \/ SharedShutdown
    \/ SharedJoin
    \/ \E w \in 1..ProdWorkers : SharedWorker(w)
    \/ SharedLogger

\* Every thread goes on running: the main thread, the worker threads of the
\* pool and the logger thread.
SpecShared ==
    /\ InitShared /\ [][NextShared]_vars
    /\ WF_vars(SharedInit \/ SharedPoll \/ SharedShutdown \/ SharedJoin)
    /\ \A w \in 1..ProdWorkers : WF_vars(SharedWorker(w))
    /\ WF_vars(SharedLogger)

\* ------------------------------------------------------------- properties

AllIdle == \A w \in Workers : wrk[w].pc = "idle"

Plus(a, b) ==
    [solutions |-> a.solutions + b.solutions,
     trials_run |-> a.trials_run + b.trials_run]

\* Two quotients, as pairs of numerator and denominator, are equal.
RatEq(a, b) == a[2] > 0 /\ b[2] > 0 /\ a[1] * b[2] = b[1] * a[2]

\* prob is solutions / trials to ten decimals: it differs from the quotient
\* by at most half a unit of the tenth decimal (and is 0 when trials = 0).
ProbIs(prob, solutions, trials) ==
    IF trials = 0 THEN prob = << 0, 0, 0 >>
    ELSE LET a == solutions - trials * prob[1]
             b == a * 100000 - trials * prob[2]
             c == b * 100000 - trials * prob[3]
         IN  /\ a >= 0 /\ a <= trials
             /\ b >= 0 /\ b <= trials
             /\ 2 * c <= trials /\ 2 * c >= 0 - trials

\* The checkpoint file holds exactly the record (solutions, trials_run).
FileHolds(state) ==
    /\ progress_file.kind = "json"
    /\ progress_file.keys = SavedKeys
    /\ progress_file.count_solutions = state.solutions
    /\ progress_file.count_run = state.trials_run

\* The last line of the metrics log records the counters of state.
LastLineShows(state) ==
    /\ Len(perf_log.lines) > 0
    /\ LET last == perf_log.lines[Len(perf_log.lines)]
       IN  /\ last.kind = "data"
           /\ last.trials = state.trials_run
           /\ last.solutions = state.solutions
           /\ ProbIs(last.prob, state.solutions, state.trials_run)

\* The lines of the metrics log that thread t wrote in its final actions.
FinalLines(t) ==
    { i \in 1..Len(perf_log.lines) :
        perf_log.lines[i].by = t /\ perf_log.lines[i].phase = "final" }

\* Controller c's last call was a stop() that has returned.
StopReturned(c) == ctl[c].pc = "idle" /\ ctl[c].op = "stop"

\* No update_progress call was in progress when c's last call began, and
\* none has run since.
QuietSince(c) ==
    ctl[c].pre_quiet /\ AllIdle /\ applied = ctl[c].pre_applied

\* C1: whenever every update_progress call has returned, progress_state is
\* the state that construction loaded plus the sum of the batches of all
\* calls that returned (calls with batch_trials = 0 add nothing), whatever
\* the interleaving of the workers with one another and with the logger
\* thread.
C1_UpdatesAddUp ==
    (constructed /\ AllIdle) => progress_state = Plus(loaded, applied)

\* Two updates of two trials and one trial have returned beside a running
\* logger thread.
C1_Witness ==
    /\ constructed /\ AllIdle
    /\ n_updates = 2
    /\ applied = [solutions |-> 2, trials_run |-> 3]
    /\ IsAlive(logger_thread)

\* C2: when stop() is called on a tracker whose logger thread is running
\* and not yet signalled, with the target not met and no update in
\* progress, and it returns without timing out, then the checkpoint file
\* holds the current counters and the last line of the metrics log shows
\* them, with the probability solutions / trials_run.
C2_StopFlushesState ==
    \A c \in Controllers :
        ( /\ StopReturned(c)
          /\ ctl[c].outcome = "joined"
          /\ ctl[c].pre_alive /\ ~ctl[c].pre_event
          /\ QuietSince(c)
          /\ progress_state.trials_run < config.total_trials )
        => (FileHolds(progress_state) /\ LastLineShows(progress_state))

\* A fresh tracker, one update (1, 2), start() and stop() with no second
\* gone by: the file holds (1, 2) and the last line shows 2, 1, 0.5.
C2_Witness ==
    \E c \in Controllers :
        /\ StopReturned(c) /\ ctl[c].outcome = "joined"
        /\ ctl[c].pre_alive /\ ~ctl[c].pre_event /\ QuietSince(c)
        /\ clock = 0
        /\ loaded.trials_run = 0
        /\ progress_state = [solutions |-> 1, trials_run |-> 2]
        /\ FileHolds(progress_state)
        /\ perf_log.lines[Len(perf_log.lines)].prob = << 0, 50000, 0 >>

\* C3: after a stop() that did not time out, on a tracker for which
\* start() spawned a logger thread, the checkpoint file reflects every
\* update that had returned when stop() was called, and equals
\* progress_state when no update has run since, whether the thread's loop
\* ended on the stop signal or on the target.
C3_StopReflectsUpdates ==
    \A c \in Controllers :
        ( /\ StopReturned(c)
          /\ ctl[c].outcome # "timed_out"
          /\ ctl[c].pre_thread # NoThread
          /\ thr[ctl[c].pre_thread].pc # "created"
          /\ ctl[c].pre_quiet )
        => /\ progress_file.kind = "json"
           /\ progress_file.count_solutions >= ctl[c].pre_state.solutions
           /\ progress_file.count_run >= ctl[c].pre_state.trials_run
           /\ QuietSince(c) => FileHolds(progress_state)

\* C4: a logger thread that has ended has appended exactly one final line
\* and has then saved exactly one final checkpoint; no thread appends a
\* second final line, saves before its final line, or goes on after its
\* final save.
C4_FinalizationOnce ==
    \A t \in Threads :
        /\ Cardinality(FinalLines(t)) <= 1
        /\ thr[t].final_logs = Cardinality(FinalLines(t))
        /\ thr[t].final_saves <= thr[t].final_logs
        /\ thr[t].pc = "dead" <=> thr[t].final_saves = 1
        /\ thr[t].pc = "dead" =>
             \A i \in 1..Len(perf_log.lines) :
                 perf_log.lines[i].by = t => i <= CHOOSE j \in FinalLines(t) : TRUE

\* A logger thread has ended on its own, the target being met, without any
\* stop().
C4_Witness ==
    \E t \in Threads :
        /\ thr[t].pc = "dead"
        /\ ~stop_event
        /\ progress_file.by = t /\ progress_file.phase = "final"

\* What get_final_probability is to return for the counters (s, t).
ExpectedProbability(s, t, total) ==
    IF t >= total /\ total > 0 THEN << s, total >>
    ELSE IF t > 0 THEN << s, t >>
    ELSE << 0, 1 >>

\* C5: get_final_probability returns solutions / total_trials when
\* trials_run >= total_trials > 0, else solutions / trials_run when
\* trials_run > 0, else 0.
C5_FinalProbability ==
    result.called =>
        /\ RatEq(result.value,
                 ExpectedProbability(result.of.solutions,
                                     result.of.trials_run,
                                     config.total_trials))
        /\ result.of.trials_run = 0 => result.value[1] = 0
        /\ config.total_trials = 0 /\ result.of.trials_run > 0 =>
             result.value = << result.of.solutions, result.of.trials_run >>

\* The call has returned 3/4 for a target of 4 with 5 trials run.
C5_Witness ==
    /\ result.called
    /\ config.total_trials = 4
    /\ result.of = [solutions |-> 3, trials_run |-> 5]
    /\ result.value = << 3, 4 >>

\* C6: on a tracker that loaded trials_run >= total_trials, start() spawns
\* no logger thread, the checkpoint file stays as it was found, the
\* metrics log gets no line after the "loaded" one, and
\* get_final_probability is solutions / total_trials from the outset.
C6_CompleteStartIsNoOp ==
    (constructed /\ loaded.trials_run >= config.total_trials) =>
        /\ n_threads = 0
        /\ logger_thread = NoThread
        /\ \A t \in Threads : thr[t].pc = "unborn"
        /\ \A c \in Controllers :
             ctl[c].op = "start" =>
                 ctl[c].pc = "idle" \/ ctl[c].pc = "start_check"
        /\ progress_file.by = NoThread /\ progress_file.phase = "old"
        /\ loaded.trials_run > 0 => FileHolds(loaded)
        /\ \A i \in 1..Len(perf_log.lines) :
             /\ perf_log.lines[i].phase \in {"header", "old", "loaded"}
             /\ perf_log.lines[i].phase = "loaded" <=> i = Len(perf_log.lines)
        /\ LastLineShows(loaded)
        /\ (config.total_trials > 0 /\ applied.trials_run = 0 /\ AllIdle) =>
             RatEq(FinalProbability(progress_state, config.total_trials),
                   << loaded.solutions, config.total_trials >>)

\* start() has returned on a tracker that loaded (2, 3) for a target of 3.
C6_Witness ==
    \E c \in Controllers :
        /\ ctl[c].pc = "idle" /\ ctl[c].op = "start"
        /\ ctl[c].outcome = "complete"
        /\ loaded = [solutions |-> 2, trials_run |-> 3]
        /\ config.total_trials = 3

\* C7: at most one logger thread is alive, and every line of the metrics
\* log and every checkpoint written after construction was written by a
\* logger thread, under any interleaving of start() and stop() calls.
C7_SingleReporter ==
    /\ Cardinality({ t \in Threads : IsAlive(t) }) <= 1
    /\ progress_file.phase # "old" => progress_file.by \in Threads
    /\ \A i \in 1..Len(perf_log.lines) :
         perf_log.lines[i].phase \in {"periodic", "final"} =>
             perf_log.lines[i].by \in Threads

\* C8: a start() that is called while the logger thread is alive returns at
\* once: the thread, the number of threads created and the stop signal are
\* as they were, and start() changes no counter.
C8_StartWhileRunningIsNoOp ==
    \A c \in Controllers :
        (ctl[c].op = "start" /\ ctl[c].pre_alive) =>
            /\ ctl[c].pc = "idle"
            /\ ctl[c].outcome = "already_running"
            /\ logger_thread = ctl[c].pre_thread
            /\ n_threads = ctl[c].pre_n
            /\ stop_event = ctl[c].pre_event
            /\ QuietSince(c) => progress_state = ctl[c].pre_state

\* start() has returned from a call made while the thread that an earlier
\* start() spawned was alive, and the thread is alive still.
C8_Witness ==
    \E c \in Controllers :
        /\ ctl[c].op = "start" /\ ctl[c].pre_alive
        /\ ctl[c].prev_op = "start" /\ ctl[c].prev_outcome = "spawned"
        /\ IsAlive(logger_thread)

\* Controller c is inside a call of stop().
InStop(c) == ctl[c].op = "stop" /\ ctl[c].pc # "idle"

\* C9: every stop() returns, even when an update_progress call keeps the
\* lock and the logger thread never ends. stop() never holds the lock; its
\* join waits no longer than max(log_interval_sec, save_interval_sec) + 5
\* seconds, after which the call can return whatever the logger thread
\* does.
C9_StopAlwaysReturns ==
    /\ [](\A c \in Controllers :
            /\ lock # c
            /\ ctl[c].pc = "stop_check" => ENABLED StopCheck(c)
            /\ ctl[c].pc = "join" =>
                 /\ ctl[c].deadline - clock <= JoinTimeout
                 /\ ctl[c].deadline - clock >= 0
                 /\ clock = ctl[c].deadline => ENABLED StopJoin(c))
    /\ \A c \in {"c1", "c2"} : InStop(c) ~> StopReturned(c)

\* A stop() called by a task other than the one whose start() spawned the
\* logger thread has returned after the timeout, the thread being alive
\* still and an update_progress call holding the lock.
C9_Witness ==
    \E c \in Controllers :
        /\ StopReturned(c) /\ ctl[c].outcome = "timed_out"
        /\ clock = ctl[c].deadline
        /\ thr[ctl[c].joined].starter \in Controllers \ {c}
        /\ IsAlive(ctl[c].joined)
        /\ lock \in Workers

Sound(state) ==
    /\ state.solutions >= 0
    /\ state.solutions <= state.trials_run

\* C11: whenever no update is half-way (the lock is free), the counters of
\* a constructed tracker satisfy 0 <= solutions <= trials_run, whatever the
\* checkpoint file held, the batches satisfying 0 <= batch_solutions <=
\* batch_trials when batch_trials > 0.
C11_SolutionsWithinTrials ==
    (constructed /\ lock = "free") => Sound(progress_state)

\* C13: construction leaves the counters at (0, 0) unless the checkpoint
\* file holds a record, and then both counters are those of the record:
\* never one counter of the record beside one that stayed 0.
C13_LoadAllOrNothing ==
    (constructed /\ progress_file.phase = "old") =>
        IF progress_file.kind = "json" /\ progress_file.keys = SavedKeys
        THEN loaded = [solutions |-> progress_file.count_solutions,
                       trials_run |-> progress_file.count_run]
        ELSE loaded = [solutions |-> 0, trials_run |-> 0]

\* C12: whatever a tracker has done to the checkpoint file, the file holds
\* a complete record at every instant: never no byte, never a part of a
\* record.
C12_CheckpointIntact ==
    progress_file.phase # "old" =>
        /\ progress_file.kind = "json"
        /\ progress_file.keys = SavedKeys

\* A second tracker has been constructed on the files of the first.
Resumed == constructed /\ Cardinality(LoadedLines) = 2

\* Thread t made its final log before the last construction: it was a
\* thread of the first tracker.
WroteBeforeReload(t) ==
    \E i \in FinalLines(t) : \E j \in LoadedLines : i < j

\* C14: a tracker constructed on the checkpoint file that the final save of
\* an earlier tracker's thread wrote starts from exactly the counters that
\* were passed to that save; and every save of a thread passes the loaded
\* counters plus the batches of the updates that have returned.
C14_RoundTrip ==
    /\ [](\A t \in Threads :
            (Resumed /\ progress_file.by = t /\ WroteBeforeReload(t)) =>
                loaded = [solutions |-> thr[t].snap_s,
                          trials_run |-> thr[t].snap_t])
    /\ [][\A t \in Threads :
            (thr[t].pc = "save_snap" /\ thr'[t].pc = "save_open") =>
                [solutions |-> thr'[t].snap_s,
                 trials_run |-> thr'[t].snap_t] = Plus(loaded, applied)]_vars

\* The first tracker, begun without a checkpoint, saved (1, 2); the second
\* one loaded (1, 2), took the update (1, 1), and its thread saved (2, 3).
C14_Witness ==
    /\ Resumed
    /\ thr[1].pc = "dead" /\ WroteBeforeReload(1)
    /\ thr[1].snap_s = 1 /\ thr[1].snap_t = 2
    /\ loaded = [solutions |-> 1, trials_run |-> 2]
    /\ applied = [solutions |-> 1, trials_run |-> 1]
    /\ progress_file.by = 2
    /\ FileHolds([solutions |-> 2, trials_run |-> 3])
    /\ \A i \in 1..Len(perf_log.lines) : perf_log.lines[i].phase # "old"

\* C15: on a file system that may refuse every open, read and write, the
\* counters are the loaded ones plus the batches of the returned updates;
\* no call of start() or stop() raises; a write that is refused changes no
\* counter and leaves the logger thread where a write that succeeded would
\* have left it (in its loop, or at its final save); a thread that has
\* ended has gone through both final actions; and the logger thread that is
\* alive when the stop signal is set ends.
C15_WriteFailureSkipped ==
    /\ []( /\ (constructed /\ AllIdle) =>
                 progress_state = Plus(loaded, applied)
           /\ \A c \in Controllers : ctl[c].outcome # "raised"
           /\ \A t \in Threads :
                thr[t].pc = "dead" =>
                    thr[t].final_logs = 1 /\ thr[t].final_saves = 1 )
    /\ [][\A t \in Threads :
            thr'[t].failed > thr[t].failed =>
                /\ progress_state' = progress_state
                /\ thr[t].phase = "periodic" =>
                     thr'[t].pc \in {"loop", "save_snap"}
                /\ (thr[t].phase = "final" /\ thr[t].pc = "log_append") =>
                     thr'[t].pc = "save_snap"]_vars
    /\ (stop_event /\ IsAlive(logger_thread)) ~> ~IsAlive(logger_thread)

\* The "Loaded" entry could not be appended and a periodic write of the
\* logger thread was refused; the thread went on, and after stop() its
\* final log and its final save are in the files.
C15_Witness ==
    /\ constructed /\ LoadedLines = {}
    /\ \E t \in Threads :
         /\ thr[t].pc = "dead" /\ thr[t].failed >= 1
         /\ FinalLines(t) # {}
         /\ progress_file.by = t /\ progress_file.phase = "final"
         /\ FileHolds(progress_state)
    /\ \E c \in Controllers : StopReturned(c) /\ ctl[c].outcome = "joined"

\* C16: a call update_progress(batch_solutions, 0) returns at once,
\* whatever batch_solutions is, and changes neither a counter nor the lock
\* nor the checkpoint file nor the metrics log.
C16_ZeroTrialsIsNoOp ==
    [][\A w \in Workers : \A bs \in 0..2 :
         UpdateCall(w, bs, 0) =>
             /\ wrk'[w].pc = "idle"
             /\ progress_state' = progress_state
             /\ applied' = applied
             /\ lock' = lock
             /\ progress_file' = progress_file
             /\ perf_log' = perf_log]_vars

\* Two calls with batch_trials = 0 have returned beside a running logger
\* thread: the counters are the loaded ones.
C16_Witness ==
    /\ constructed /\ AllIdle
    /\ n_updates = 2
    /\ applied = [solutions |-> 0, trials_run |-> 0]
    /\ progress_state = loaded
    /\ IsAlive(logger_thread)

\* C17: a step of a worker inside update_progress changes neither the
\* checkpoint file nor the metrics log; of the tracker it changes the two
\* counters and the lock only.
C17_UpdateDoesNoIO ==
    [][(wrk' # wrk \/ n_updates' # n_updates) =>
           /\ progress_file' = progress_file
           /\ perf_log' = perf_log
           /\ stop_event' = stop_event
           /\ logger_thread' = logger_thread
           /\ thr' = thr
           /\ config' = config]_vars

\* Updates have returned on a tracker that never had a logger thread: the
\* files are as the construction left them.
C17_Witness ==
    /\ constructed /\ AllIdle
    /\ applied.trials_run >= 2
    /\ n_threads = 0
    /\ progress_file.phase = "old"
    /\ \A i \in 1..Len(perf_log.lines) :
         perf_log.lines[i].phase \in {"header", "old", "loaded"}

\* The positions of a logger thread between the open and the end of a
\* write to a file.
IOPositions == {"log_append", "save_open", "save_write"}

\* C18: while a logger thread is about to write or is writing a file, the
\* lock is free or held by a worker that is adding its batch, so that
\* update_progress can go on; and a worker holds the lock only between
\* the two additions of lines 96-97.
C18_NoIOUnderLock ==
    /\ (\E t \in Threads : thr[t].pc \in IOPositions) =>
           lock \in {"free"} \cup Workers
    /\ \A w \in Workers : lock = w <=> wrk[w].pc \in {"add_s", "add_t"}
    /\ (constructed /\ lock = "free" /\ n_updates < limits.updates) =>
           \A w \in Workers :
               wrk[w].pc = "idle" => ENABLED UpdateCall(w, 1, 1)

\* A worker is adding its batch under the lock while the logger thread is
\* between the open and the write of the checkpoint file.
C18_Witness ==
    \E t \in Threads : \E w \in Workers :
        /\ thr[t].pc = "save_write"
        /\ progress_file.kind = "empty"
        /\ lock = w /\ wrk[w].pc = "add_t"

HeaderLines ==
    { i \in 1..Len(perf_log.lines) : perf_log.lines[i].kind = "header" }

\* C20: every step leaves the lines that the metrics log held where they
\* were and as they were, adding lines at the end only; the log of a
\* constructed tracker holds lines, the first line of a log is the header
\* and no other line is a header.
C20_AppendOnlyHeaderFirst ==
    /\ [][/\ Len(perf_log'.lines) >= Len(perf_log.lines)
          /\ SubSeq(perf_log'.lines, 1, Len(perf_log.lines)) = perf_log.lines
          /\ perf_log.exists => perf_log'.exists]_vars
    /\ [](constructed => Len(perf_log.lines) >= 2)
    /\ [](Len(perf_log.lines) > 0 => HeaderLines = {1})

\* A log that did not exist holds the header, the "Loaded" line, a
\* periodic line and a final line, in this order.
C20_Witness ==
    /\ Len(perf_log.lines) = 4
    /\ perf_log.lines[1].kind = "header"
    /\ perf_log.lines[2].phase = "loaded"
    /\ perf_log.lines[3].phase = "periodic"
    /\ perf_log.lines[4].phase = "final"

\* The lines of the metrics log that record a snapshot.
Records ==
    { i \in 1..Len(perf_log.lines) : perf_log.lines[i].kind = "data" }

\* C21: in the metrics log the timestamps of the records are non-decreasing
\* in line order, across the lines of an earlier run, the "Loaded" line of
\* the construction and the periodic and final lines of the logger threads.
C21_TimestampsNonDecreasing ==
    \A i \in Records : \A j \in Records :
        i < j => perf_log.lines[i].ts <= perf_log.lines[j].ts

\* C22: a start() that has returned has spawned a logger thread only if no
\* thread was alive and trials_run was below total_trials, and has spawned
\* none when the target was met; a stop() that returns without timing out
\* leaves the stop signal set and no thread alive; and a start() that
\* spawns after a stop() has cleared the stop signal and created a new
\* thread, which runs the loop and, once it has ended, has made its own
\* final log and final save.
C22_Lifecycle ==
    \A c \in Controllers :
        /\ (ctl[c].op = "start" /\ ctl[c].pc = "idle") =>
              /\ ctl[c].outcome \in {"already_running", "complete", "spawned"}
              /\ ctl[c].outcome = "already_running" => ctl[c].pre_alive
              /\ ctl[c].outcome = "complete" =>
                    /\ progress_state.trials_run >= config.total_trials
                    /\ n_threads = ctl[c].pre_n
                    /\ logger_thread = ctl[c].pre_thread
              /\ ctl[c].outcome = "spawned" =>
                    /\ ~ctl[c].pre_alive
                    /\ ctl[c].pre_state.trials_run < config.total_trials
                    /\ ~stop_event
                    /\ n_threads = ctl[c].pre_n + 1
                    /\ logger_thread = n_threads
                    /\ logger_thread # ctl[c].pre_thread
                    /\ thr[logger_thread].starter = c
                    /\ thr[logger_thread].pc \notin {"unborn", "created"}
                    /\ thr[logger_thread].pc = "dead" =>
                          /\ Cardinality(FinalLines(logger_thread)) = 1
                          /\ thr[logger_thread].final_saves = 1
        /\ (StopReturned(c) /\ ctl[c].outcome # "timed_out") =>
              /\ stop_event
              /\ \A t \in Threads : ~IsAlive(t)

\* start(), stop() and start() again: the second start() has spawned a
\* second logger thread, which met the target, made its final log and final
\* save after those of the first thread, and ended.
C22_Witness ==
    \E c \in Controllers :
        /\ ctl[c].op = "start" /\ ctl[c].outcome = "spawned"
        /\ ctl[c].prev_op = "stop" /\ ctl[c].prev_outcome = "joined"
        /\ ctl[c].pre_event /\ ~stop_event
        /\ logger_thread = 2
        /\ thr[1].pc = "dead" /\ thr[2].pc = "dead"
        /\ FinalLines(1) # {} /\ FinalLines(2) # {}
        /\ progress_file.by = 2 /\ progress_file.phase = "final"

\* The sum of the local counters of the worker threads 1..n that have not
\* returned.
RECURSIVE LocalCounts(_)
LocalCounts(n) ==
    IF n = 0 THEN [solutions |-> 0, trials_run |-> 0]
    ELSE IF prod.task[n].pc = "done" THEN LocalCounts(n - 1)
    ELSE Plus(LocalCounts(n - 1),
              [solutions |-> prod.task[n].local_solutions,
               trials_run |-> prod.task[n].local_trials_count])

\* The completed work that a producer holds and has not reported yet.
Pending ==
    IF prod.kind = "multithread" THEN LocalCounts(prod.num_workers)
    ELSE IF prod.pc = "update"
         THEN [solutions |-> prod.bs, trials_run |-> prod.bt]
         ELSE [solutions |-> 0, trials_run |-> 0]

\* The producer has returned.
Finished ==
    IF prod.kind = "multithread"
    THEN \A w \in DOMAIN prod.task : prod.task[w].pc = "done"
    ELSE prod.pc = "done"

\* C23: every update_progress call of ComputeSimple.compute, of
\* ComputeMultiprocess.compute and of the workers of ComputeMultithread
\* passes batch_trials > 0 and 0 <= batch_solutions <= batch_trials; the
\* work that has been completed is what has been reported plus what the
\* producer still holds, so that each batch is reported once, and when the
\* producer returns all of it has been reported.
C23_ProducersReportOnce ==
    /\ n_updates > 0 =>
          /\ prod.call[2] > 0
          /\ prod.call[1] >= 0
          /\ prod.call[1] <= prod.call[2]
    /\ Plus(applied, Pending) = prod.done
    /\ progress_state = Plus(loaded, applied)
    /\ Finished => applied = prod.done

\* Two worker threads that report every second trial have returned: three
\* trials were made for a target of two, one batch of two trials and one
\* left-over trial were reported.
C23_Witness ==
    /\ prod.kind = "multithread" /\ prod.num_workers = 2 /\ prod.size = 2
    /\ Finished
    /\ config.total_trials = 2 /\ loaded.trials_run = 0
    /\ n_updates = 2
    /\ prod.done.trials_run = 3
    /\ applied = prod.done

\* The counters as the pair that get_current_progress returns.
PairOf(state) == << state.solutions, state.trials_run >>

\* C24: a call of get_current_progress or get_final_probability changes
\* neither a counter nor a file nor anything else of the tracker; the pair
\* that get_current_progress returned last is the pair of the counters for
\* as long as no update_progress call has begun since, so a second call
\* returns the same pair, whether or not a logger thread is running.
C24_ReadsChangeNothing ==
    /\ [][(current_progress' # current_progress \/ result' # result) =>
             UNCHANGED << config, progress_state, lock, stop_event,
                          logger_thread, thr, n_threads, progress_file,
                          perf_log, wrk, ctl, applied >>]_vars
    /\ [][(current_progress.called /\ current_progress'.at = current_progress.at)
             => current_progress'.value = current_progress.value]_vars
    /\ []((current_progress.called /\ current_progress.at = n_updates) =>
             current_progress.value = PairOf(progress_state))

\* get_current_progress has returned (1, 2) after the one update, and
\* get_final_probability has returned 1/2, while the logger thread is
\* between the open and the write of the checkpoint file.
C24_Witness ==
    /\ current_progress.called
    /\ current_progress.at = 1 /\ n_updates = 1
    /\ current_progress.value = << 1, 2 >>
    /\ result.called /\ result.value = << 1, 2 >>
    /\ \E t \in Threads : thr[t].pc = "save_write"

\* C30: every pair that get_current_progress returns and every pair that
\* _log_performance_metrics and _save_progress copy is read while no
\* update_progress call is half-way, and is the loaded counters plus the
\* batches of the calls that have returned; every record appended to the
\* metrics log and every record written to the checkpoint file is such a
\* copy (the loaded counters for the "Loaded" record).
C30_AtomicSnapshots ==
    [][/\ current_progress' # current_progress =>
            /\ AllIdle
            /\ current_progress'.value = PairOf(Plus(loaded, applied))
       /\ \A t \in Threads :
            (thr[t].pc \in {"log_snap", "save_snap"}
             /\ thr'[t].pc # thr[t].pc) =>
                /\ AllIdle
                /\ << thr'[t].snap_s, thr'[t].snap_t >> =
                       PairOf(Plus(loaded, applied))
       /\ perf_log'.lines # perf_log.lines =>
            LET last == perf_log'.lines[Len(perf_log'.lines)]
            IN  IF constructed
                THEN \E t \in Threads :
                       /\ thr[t].pc = "log_append"
                       /\ << last.solutions, last.trials >> =
                              << thr[t].snap_s, thr[t].snap_t >>
                ELSE << last.solutions, last.trials >> = PairOf(loaded')
       /\ (progress_file' # progress_file /\ progress_file'.kind = "json") =>
            \E t \in Threads :
              /\ thr[t].pc = "save_write"
              /\ << progress_file'.count_solutions,
                    progress_file'.count_run >> =
                     << thr[t].snap_s, thr[t].snap_t >>]_vars

\* get_current_progress has returned the pair of the counters after the one
\* update, while the logger thread holds a copy that it made before the
\* update and has not written yet.
C30_Witness ==
    /\ current_progress.called
    /\ current_progress.value = PairOf(Plus(loaded, applied))
    /\ applied.trials_run > 0
    /\ \E t \in Threads :
         /\ thr[t].pc = "log_append"
         /\ << thr[t].snap_s, thr[t].snap_t >> = PairOf(loaded)

\* The names of the checkpoint file and of the metrics file are made of
\* the prefix, "-", the label and the extension ext; a tracker with the same
\* prefixes and another label has another checkpoint file and another
\* metrics file.
PathsDerived(ext) ==
    constructed =>
        /\ config.progress_filename =
               config.progress_filename_prefix \o "-" \o config.compute_type
                 \o ".json"
        /\ config.performance_log_filename =
               config.performance_log_filename_prefix \o "-"
                 \o config.compute_type \o ext
        /\ \A other \in Labels \ {config.compute_type} :
               LET cfg == Attributes([config EXCEPT !.compute_type = other])
               IN  /\ cfg.progress_filename # config.progress_filename
                   /\ cfg.performance_log_filename #
                          config.performance_log_filename

PeriodicLines ==
    { i \in 1..Len(perf_log.lines) : perf_log.lines[i].phase = "periodic" }

\* C26 as stated: every periodic line of the metrics log and every periodic
\* record of the checkpoint file shows trials_run < total_trials.
C26_PeriodicBelowTarget ==
    /\ \A i \in PeriodicLines :
          perf_log.lines[i].trials < config.total_trials
    /\ (progress_file.phase = "periodic" /\ progress_file.kind = "json") =>
          progress_file.count_run < config.total_trials

\* C26, amended: a logger thread makes a periodic log or a periodic save
\* only in an iteration of its loop in which the respective interval has
\* gone by and the trials_run that it read at the start of the iteration
\* was below total_trials. (The record holds the counters as they are when
\* it is made, which may have reached the target since.)
C26_PeriodicStepsGuarded ==
    \A t \in Threads :
        thr[t].phase = "periodic" =>
            /\ thr[t].pc \in {"log_snap", "log_append"} =>
                  /\ thr[t].cur < config.total_trials
                  /\ thr[t].now - thr[t].last_log >= config.log_interval_sec
            /\ thr[t].pc \in {"save_snap", "save_open", "save_write"} =>
                  /\ thr[t].cur < config.total_trials
                  /\ thr[t].now - thr[t].last_save >= config.save_interval_sec

\* A logger thread that read trials_run = 1 for a target of 3 has made a
\* periodic log a second later, after the update (1, 2): the line shows
\* trials_run = 3.
C26_Witness ==
    \E t \in Threads :
        /\ thr[t].cur = 1 /\ config.total_trials = 3
        /\ thr[t].phase = "periodic" /\ thr[t].pc \in {"save_snap", "loop"}
        /\ LET last == perf_log.lines[Len(perf_log.lines)]
           IN  /\ last.phase = "periodic" /\ last.by = t
               /\ last.trials = 3 /\ last.ts = 1

\* Thread t has ended after both of its final actions.
Finalized(t) ==
    /\ thr[t].pc = "dead"
    /\ Cardinality(FinalLines(t)) = 1
    /\ thr[t].final_saves = 1

\* C27: a logger thread that is alive when trials_run has reached
\* total_trials leaves its loop, makes its final log and final save and
\* ends, whether or not stop() is called. A wait lasts min(time to the next
\* log, time to the next save, 1) seconds, and no less than 0; no wait
\* begins once the target is met, so the thread notices after the wait it
\* is in at most, and the loop head then goes to the final actions.
C27_TargetEndsReporter ==
    /\ [](\A t \in Threads :
            thr[t].pc = "wait" =>
                LET to_log == config.log_interval_sec
                                - (thr[t].now - thr[t].last_log)
                    to_save == config.save_interval_sec
                                 - (thr[t].now - thr[t].last_save)
                    least == Min(Min(to_log, to_save), 1)
                IN  /\ thr[t].wake - thr[t].now = Max(0, least)
                    /\ thr[t].wake - thr[t].now \in {0, 1}
                    /\ thr[t].cur < config.total_trials)
    /\ [][\A t \in Threads :
            /\ (thr'[t].pc = "wait" /\ thr[t].pc # "wait") =>
                  progress_state.trials_run < config.total_trials
            /\ (thr[t].pc = "loop" /\ thr'[t].pc # "loop"
                 /\ progress_state.trials_run >= config.total_trials) =>
                  (thr'[t].pc = "log_snap" /\ thr'[t].phase = "final")]_vars
    /\ \A t \in 1..MaxThreads :
          (IsAlive(t) /\ progress_state.trials_run >= config.total_trials)
              ~> Finalized(t)

\* A logger thread that was waiting when the update (1, 2) met the target
\* of 3 has ended after its final log and final save; stop() was never
\* called, and the clock has gone to the end of the wait and no further.
C27_Witness ==
    \E t \in Threads :
        /\ Finalized(t)
        /\ ~stop_event /\ n_calls = 1
        /\ thr[t].cur = 3 /\ thr[t].wake = clock /\ thr[t].wake > thr[t].last_log
        /\ FileHolds(progress_state)
        /\ progress_state.trials_run = 3

\* Thread t decides on a periodic log, or on a periodic save, in this step.
LogDecided(t) ==
    /\ thr[t].pc = "after_wait"
    /\ thr'[t].pc = "log_snap" /\ thr'[t].phase = "periodic"
SaveDecided(t) ==
    /\ thr[t].pc \in {"after_wait", "log_append"}
    /\ thr'[t].pc = "save_snap" /\ thr'[t].phase = "periodic"

\* C28 as stated: the timestamps of two consecutive periodic records of one
\* logger thread are at least log_interval_sec apart.
C28_RecordsApart ==
    \A i \in PeriodicLines : \A j \in PeriodicLines :
        (i < j /\ perf_log.lines[i].by = perf_log.lines[j].by) =>
            perf_log.lines[j].ts - perf_log.lines[i].ts
                >= config.log_interval_sec

\* C28, amended: the readings of the clock (line 128) on which a logger
\* thread decides two consecutive periodic logs are at least
\* log_interval_sec apart, and those of two consecutive periodic saves at
\* least save_interval_sec, the first of each no earlier than one interval
\* after the reading with which the thread began (lines 103-104); the
\* thread logs and saves on no other occasion before its final actions.
C28_CadenceHonoured ==
    [][\A t \in Threads :
         /\ LogDecided(t) =>
               /\ thr'[t].now = clock
               /\ thr'[t].now - thr[t].log_at >= config.log_interval_sec
         /\ SaveDecided(t) =>
               thr'[t].now - thr[t].save_at >= config.save_interval_sec
         /\ thr'[t].log_at # thr[t].log_at =>
               \/ thr[t].pc = "begin" /\ thr'[t].log_at = clock
               \/ LogDecided(t) /\ thr'[t].log_at = thr'[t].now
         /\ thr'[t].save_at # thr[t].save_at =>
               \/ thr[t].pc = "begin" /\ thr'[t].save_at = clock
               \/ SaveDecided(t) /\ thr'[t].save_at = thr'[t].now
         /\ (thr'[t].phase = "periodic" /\ thr'[t].pc # thr[t].pc) =>
               /\ thr'[t].pc = "log_snap" => LogDecided(t)
               /\ thr'[t].pc = "save_snap" => SaveDecided(t)]_vars

\* A logger thread with a log interval of 1 s that began at second 0 has
\* appended two periodic records, stamped second 1 and second 2.
C28_Witness ==
    \E i \in PeriodicLines :
        /\ i + 1 \in PeriodicLines
        /\ config.log_interval_sec = 1
        /\ perf_log.lines[i].by = perf_log.lines[i + 1].by
        /\ perf_log.lines[i].ts = 1
        /\ perf_log.lines[i + 1].ts = 2
        /\ thr[perf_log.lines[i].by].log_at = 2

\* Thread t appends a record to the performance log in this step.
AppendsBy(t) ==
    /\ thr[t].pc = "log_append"
    /\ Len(perf_log'.lines) > Len(perf_log.lines)

\* C29: a wait of the logger thread can return as soon as the stop signal
\* is set, whatever is left of its duration; when the signal is set as the
\* thread makes the check after the wait (line 125), the thread goes to its
\* final log without reading the clock and without resetting a deadline, and
\* from there on it appends no periodic record and writes no periodic
\* checkpoint.
C29_StopCutsIteration ==
    /\ [](\A t \in Threads :
            (thr[t].pc = "wait" /\ stop_event) => ENABLED Wait(t))
    /\ [][\A t \in Threads :
            /\ (thr[t].pc = "after_wait" /\ stop_event
                    /\ thr'[t] # thr[t]) =>
                  /\ thr'[t] = [thr[t] EXCEPT !.pc = "log_snap",
                                              !.phase = "final"]
                  /\ perf_log' = perf_log
                  /\ progress_file' = progress_file
            /\ (thr[t].phase = "final" /\ thr[t].pc # "dead") =>
                  /\ thr'[t].phase = "final"
                  /\ AppendsBy(t) =>
                        perf_log'.lines[Len(perf_log'.lines)].phase = "final"
                  /\ thr'[t].last_log = thr[t].last_log
                  /\ thr'[t].last_save = thr[t].last_save]_vars

\* The stop signal is set and a logger thread whose log deadline has elapsed
\* (the clock is a whole log interval past its last log) is at its final
\* log, having appended no periodic record.
C29_Witness ==
    \E t \in Threads :
        /\ stop_event
        /\ thr[t].pc = "log_append" /\ thr[t].phase = "final"
        /\ thr[t].ts - thr[t].last_log >= config.log_interval_sec
        /\ thr[t].ts - thr[t].last_save >= config.save_interval_sec
        /\ \A i \in PeriodicLines : perf_log.lines[i].by # t

\* Counters a that are no greater than counters b, each by each.
AtMost(a, b) ==
    a.solutions <= b.solutions /\ a.trials_run <= b.trials_run

\* The counters of a snapshot that logger thread t holds.
SnapOf(t) == [solutions |-> thr[t].snap_s, trials_run |-> thr[t].snap_t]

\* C31: once the tracker is constructed, the record in the checkpoint file
\* is at most progress_state, counter by counter, and a logger thread that
\* truncates or writes the file while it holds a record puts no smaller
\* counters in the place of that record.
C31_CheckpointFollowsMemory ==
    /\ [](constructed /\ progress_file.kind = "json" =>
            AtMost(LoadProgress(progress_file), progress_state))
    /\ [][\A t \in Threads :
            (thr[t].pc \in {"save_open", "save_write"}
                /\ progress_file' # progress_file
                /\ progress_file.kind = "json") =>
              AtMost(LoadProgress(progress_file), SnapOf(t))]_vars

\* The lines of the metrics log that the tracker has appended: the
\* "Loaded" line of its construction and the lines of its logger threads.
OwnRecords == { i \in Records : perf_log.lines[i].phase # "old" }

StoppedBy(c) ==
    /\ StopReturned(c) /\ ctl[c].outcome = "joined"
    /\ \A d \in Controllers : ctl[d].pc = "idle"

\* C33: from the return of a stop() that joined the logger thread until the
\* next call of start(), no logger thread is alive and no step writes the
\* checkpoint file or the metrics log, while update_progress goes on
\* changing progress_state.
C33_QuiescentAfterStop ==
    /\ []((\E c \in Controllers : StoppedBy(c)) =>
            \A t \in Threads : ~IsAlive(t) /\ thr[t].pc # "created")
    /\ [][(\E c \in Controllers : StoppedBy(c)) =>
            /\ progress_file' = progress_file
            /\ perf_log' = perf_log
            /\ thr' = thr]_vars

\* A stop() has joined the logger thread, whose final save is in the
\* checkpoint file, and an update that returned afterwards has taken
\* progress_state past the record of the file.
C33_Witness ==
    \E c \in Controllers :
        /\ StoppedBy(c)
        /\ AllIdle
        /\ progress_file.kind = "json" /\ progress_file.phase = "final"
        /\ progress_file.by = ctl[c].pre_thread
        /\ progress_state.trials_run > progress_file.count_run
        /\ progress_state.trials_run > ctl[c].pre_state.trials_run

\* C34: for counters with 0 <= solutions <= trials_run and any target,
\* get_final_probability returns a quotient between 0 and 1: its numerator
\* is not negative and does not exceed its denominator.
C34_ProbabilityInUnitInterval ==
    (result.called /\ 0 <= result.of.solutions
        /\ result.of.solutions <= result.of.trials_run) =>
        /\ result.value[2] > 0
        /\ 0 <= result.value[1]
        /\ result.value[1] <= result.value[2]

MultiprocessBounds ==
    /\ prod.submitted <= config.total_trials
    /\ \A i \in DOMAIN prod.active :
         prod.active[i] >= 1 /\ prod.active[i] <= prod.size
    /\ Len(prod.active) <= prod.num_workers
    /\ prod.stops = IF prod.pc \in {"done", "raised"} THEN 1 ELSE 0

\* C36 as stated: ComputeMultiprocess.compute keeps these bounds, and when
\* it returns with no batch failed, trials_run is exactly total_trials.
C36_ExactlyTotal ==
    prod.kind = "multiprocess" =>
        /\ MultiprocessBounds
        /\ (prod.pc = "done" /\ prod.failed = 0) =>
              progress_state.trials_run = config.total_trials

\* C36, amended: ComputeMultiprocess.compute keeps these bounds, its loop
\* ends, and when it returns with no batch failed, trials_run is
\* total_trials if batch_size >= 1 and no more than total_trials trials
\* were loaded; it is the loaded count if that is beyond total_trials or
\* if batch_size < 1, when no batch is submitted at all. A failed batch
\* leaves trials_run short of total_trials.
C36_SchedulesRemaining ==
    /\ [](prod.kind = "multiprocess" =>
            /\ MultiprocessBounds
            /\ (prod.pc = "done" /\ prod.failed = 0) =>
                  progress_state.trials_run =
                      IF prod.size >= 1
                      THEN Max(config.total_trials, loaded.trials_run)
                      ELSE loaded.trials_run
            /\ (prod.pc = "done" /\ prod.failed > 0) =>
                  progress_state.trials_run < config.total_trials)
    /\ (prod.kind = "multiprocess") ~> (prod.pc \in {"done", "raised"})

\* Two processes have run a batch of two trials and a batch of one for a
\* target of 3; no batch failed, and compute() has stopped the logger and
\* returned with 3 trials run.
C36_Witness ==
    /\ prod.kind = "multiprocess" /\ prod.num_workers = 2 /\ prod.size = 2
    /\ prod.pc = "done" /\ prod.failed = 0 /\ prod.stops = 1
    /\ config.total_trials = 3 /\ loaded.trials_run = 0
    /\ n_updates = 2
    /\ progress_state.trials_run = 3

\* What ComputeSimple.compute keeps in every state: a batch of
\* min(batch_size, total_trials - trials_run) > 0 trials, and one call of
\* logger.stop() on the way out, by a return or by an exception.
SimpleBounds ==
    /\ prod.pc \in {"run", "update"} =>
         /\ prod.batch > 0
         /\ prod.batch = Min(prod.size,
                             config.total_trials - progress_state.trials_run)
    /\ prod.stops = IF prod.pc \in {"done", "raised"} THEN 1 ELSE 0

\* C37 as stated: once ComputeSimple.compute has read the loaded counters,
\* trials_run <= total_trials in every state, and compute() returns with
\* trials_run = total_trials and the probability solutions / total_trials.
C37_NeverBeyondTotal ==
    prod.kind = "simple" =>
        /\ SimpleBounds
        /\ prod.pc # "init" =>
              progress_state.trials_run <= config.total_trials
        /\ prod.pc = "done" =>
              /\ progress_state.trials_run = config.total_trials
              /\ RatEq(prod.ret, << progress_state.solutions,
                                    config.total_trials >>)

\* C37, amended: ComputeSimple.compute runs no trial beyond the target:
\* trials_run <= max(total_trials, the loaded count) in every state; the
\* loop ends; compute() returns with trials_run = total_trials when
\* batch_size >= 1 and no more than total_trials trials were loaded, and
\* with the loaded count otherwise; and it returns solutions / total_trials
\* when trials_run >= total_trials > 0, else solutions / trials_run, or 0
\* with no trial run.
C37_NoOvershoot ==
    /\ [](prod.kind = "simple" =>
            /\ SimpleBounds
            /\ progress_state.trials_run
                 <= Max(config.total_trials, loaded.trials_run)
            /\ prod.pc = "done" =>
                  /\ progress_state.trials_run =
                        IF prod.size >= 1
                        THEN Max(config.total_trials, loaded.trials_run)
                        ELSE loaded.trials_run
                  /\ RatEq(prod.ret,
                           ExpectedProbability(progress_state.solutions,
                                               progress_state.trials_run,
                                               config.total_trials)))
    /\ (prod.kind = "simple") ~> (prod.pc \in {"done", "raised"})

\* ComputeSimple.compute has run a batch of two trials and a batch of one
\* for a target of 3, stopped the logger and returned solutions / 3.
C37_Witness ==
    /\ prod.kind = "simple" /\ prod.size = 2
    /\ prod.pc = "done" /\ prod.stops = 1
    /\ config.total_trials = 3 /\ loaded.trials_run = 0
    /\ n_updates = 2
    /\ prod.call = << 1, 1 >>
    /\ progress_state.trials_run = 3
    /\ prod.ret = << progress_state.solutions, 3 >>

\* C38: once trials_run has reached total_trials, compute() of
\* ComputeMultithread2 returns.
C38_SharedComputeReturns ==
    (prod.kind = "multithread2" /\ prod.pc # "init"
        /\ prod.trials_run >= config.total_trials)
    ~> (prod.pc = "done")

====
